---- MODULE Spec2Model ----
(***************************************************************************)
(* Model of the Jira MCP server.  Of src/src/jira-client.ts: the markdown  *)
(* -> ADF converter (parseInlineFormatting, the inline span tokenizer, and *)
(* textToADF, the block structurer), JiraClient.searchIssues and           *)
(* JiraClient.addComment.  Of the server module: expandPodAliases and the  *)
(* CallToolRequest handler.  Strings whose characters matter are sequences *)
(* of one-character strings; positions in a string are 0-based as in the   *)
(* source.  Each function has a specification of its own, in which the     *)
(* variables of the others stay idle.                                      *)
(***************************************************************************)
EXTENDS Integers, Sequences, FiniteSets, TLC

(* ------------------------------ bounds -------------------------------- *)

\* Number of lines of the text handed to textToADF.
MaxLines == 3

\* Length of the line handed to parseInlineFormatting: of a line over the
\* emphasis alphabet, of a line over the link alphabet, and of a line of
\* asterisks and letters.
MaxLen == 5
MaxLinkLen == 6
MaxStarLen == 7

(* --------------------------- string helpers --------------------------- *)

\* What String.prototype.trim strips and the regular expression class \s
\* matches (restricted to the characters of the model's alphabet).
WhiteSpace == {" ", "\t", "\r"}

\* The characters the regular expression atom . does not match.
LineTerminators == {"\n", "\r"}

\* The backtick character (a backtick cannot be written in a TLA+ string).
Backtick == "BACKTICK"

Digits == {"0", "1", "2", "3", "4", "5", "6", "7", "8", "9"}

\* s.substring(a, b)
Substring(s, a, b) == SubSeq(s, a + 1, b)

\* s.substring(a)
SubstringFrom(s, a) == SubSeq(s, a + 1, Len(s))

\* s.startsWith(p)
StartsWith(s, p) == Len(s) >= Len(p) /\ SubSeq(s, 1, Len(p)) = p

\* s starts with p at 0-based position pos
StartsWithAt(s, p, pos) ==
    Len(s) >= pos + Len(p) /\ SubSeq(s, pos + 1, pos + Len(p)) = p

RECURSIVE TrimStart(_)
TrimStart(s) ==
    IF s # <<>> /\ Head(s) \in WhiteSpace THEN TrimStart(Tail(s)) ELSE s

RECURSIVE TrimEnd(_)
TrimEnd(s) ==
    IF s # <<>> /\ s[Len(s)] \in WhiteSpace
    THEN TrimEnd(SubSeq(s, 1, Len(s) - 1))
    ELSE s

\* s.trim()
Trim(s) == TrimEnd(TrimStart(s))

\* The 0-based position of the first character of s at or after from that
\* is in (when member) or not in (when ~member) the set cs; Len(s) if none.
RECURSIVE Scan(_, _, _, _)
Scan(s, from, cs, member) ==
    IF from >= Len(s) THEN Len(s)
    ELSE IF (s[from + 1] \in cs) = member THEN from
    ELSE Scan(s, from + 1, cs, member)

\* text.split('\n')
RECURSIVE Split(_)
Split(s) ==
    LET k == Scan(s, 0, {"\n"}, TRUE)
    IN  IF k = Len(s) THEN <<s>>
        ELSE <<Substring(s, 0, k)>> \o Split(SubstringFrom(s, k + 1))

\* ls.join('\n')
RECURSIVE Join(_)
Join(ls) ==
    IF ls = <<>> THEN <<>>
    ELSE IF Len(ls) = 1 THEN ls[1]
    ELSE ls[1] \o <<"\n">> \o Join(Tail(ls))

(* ----------------------- the combined regex --------------------------- *)

\* A capture group of a match: undefined, or a (possibly empty) string.
Undefined == [def |-> FALSE, val |-> <<>>]
Group(v) == [def |-> TRUE, val |-> v]

\* JavaScript truthiness of a capture group: defined and not "".
Truthy(g) == g.def /\ g.val # <<>>

NoGroups == [k \in 1..9 |-> Undefined]

\* regex.exec(...) === null
NoMatch == [found |-> FALSE, index |-> 0, len |-> 0, groups |-> NoGroups]

\* open ([^stop]{min,}) open  tried at position p, capturing into group g:
\* the class is greedy and ends at the first stop character (or at the end
\* of the text), where the closing delimiter must follow.
MatchDelimited(s, p, open, stop, min, g) ==
    IF ~StartsWithAt(s, open, p) THEN NoMatch
    ELSE LET from == p + Len(open)
             to   == Scan(s, from, {stop}, TRUE)
         IN  IF to - from >= min /\ StartsWithAt(s, open, to)
             THEN [found |-> TRUE, index |-> p,
                   len |-> to + Len(open) - p,
                   groups |-> [NoGroups EXCEPT
                       ![1] = Group(Substring(s, p, to + Len(open))),
                       ![g] = Group(Substring(s, from, to))]]
             ELSE NoMatch

\* \[([^\]]+)\]\(([^)]+)\)  tried at position p (groups 2 and 3).
MatchLink(s, p) ==
    IF ~StartsWithAt(s, <<"[">>, p) THEN NoMatch
    ELSE LET rb == Scan(s, p + 1, {"]"}, TRUE)
         IN  IF rb - (p + 1) >= 1 /\ StartsWithAt(s, <<"]", "(">>, rb)
             THEN LET rp == Scan(s, rb + 2, {")"}, TRUE)
                  IN  IF rp - (rb + 2) >= 1 /\ rp < Len(s)
                      THEN [found |-> TRUE, index |-> p, len |-> rp + 1 - p,
                            groups |-> [NoGroups EXCEPT
                                ![1] = Group(Substring(s, p, rp + 1)),
                                ![2] = Group(Substring(s, p + 1, rb)),
                                ![3] = Group(Substring(s, rb + 2, rp))]]
                      ELSE NoMatch
             ELSE NoMatch

\* The alternatives of the combined pattern, in the order they are written:
\* link | code | **bold** | __bold__ | ~~strike~~ | *italic* | _italic_
Alternative(k, s, p) ==
    CASE k = 1 -> MatchLink(s, p)
      [] k = 2 -> MatchDelimited(s, p, <<Backtick>>, Backtick, 0, 4)
      [] k = 3 -> MatchDelimited(s, p, <<"*", "*">>, "*", 1, 5)
      [] k = 4 -> MatchDelimited(s, p, <<"_", "_">>, "_", 1, 6)
      [] k = 5 -> MatchDelimited(s, p, <<"~", "~">>, "~", 1, 7)
      [] k = 6 -> MatchDelimited(s, p, <<"*">>, "*", 1, 8)
      [] k = 7 -> MatchDelimited(s, p, <<"_">>, "_", 1, 9)

NumAlternatives == 7

\* The alternation at one position: the first alternative that matches.
RECURSIVE FirstAlternative(_, _, _)
FirstAlternative(k, s, p) ==
    IF k > NumAlternatives THEN NoMatch
    ELSE LET m == Alternative(k, s, p)
         IN  IF m.found THEN m ELSE FirstAlternative(k + 1, s, p)

MatchAt(s, p) == FirstAlternative(1, s, p)

\* regex.exec(text) with regex.lastIndex = lastIndex: the leftmost position
\* at or after lastIndex where the pattern matches.
RECURSIVE Exec(_, _)
Exec(s, lastIndex) ==
    IF lastIndex >= Len(s) THEN NoMatch
    ELSE LET m == MatchAt(s, lastIndex)
         IN  IF m.found THEN m ELSE Exec(s, lastIndex + 1)

(* ---------------------- parseInlineFormatting -------------------------- *)

\* An ADF text node; a node the source builds without a marks field has
\* marks = << >>.
PlainNode(t) == [type |-> "text", text |-> t, marks |-> <<>>]
MarkedNode(t, mark) == [type |-> "text", text |-> t, marks |-> <<[type |-> mark]>>]
\* Mutant: the label and the href of a link change places.
LinkNodeSwapped(t, href) ==
    [type |-> "text", text |-> href,
     marks |-> <<[type |-> "link", attrs |-> [href |-> t]]>>]

LinkNode(t, href) ==
    [type |-> "text", text |-> t,
     marks |-> <<[type |-> "link", attrs |-> [href |-> href]]>>]

\* Mutant: the plain text before a match is not emitted.
PlainBeforeDropped(text, currentPos, m) == <<>>

\* The plain text between the end of the previous match and this match.
PlainBefore(text, currentPos, m) ==
    IF m.index > currentPos
    THEN LET plainText == Substring(text, currentPos, m.index)
         IN  IF plainText # <<>> THEN <<PlainNode(plainText)>> ELSE <<>>
    ELSE <<>>

\* Mutant: the groups of the bold and italic alternatives are mixed up.
MatchedNodeMarksSwapped(m) ==
    LET g == m.groups
    IN  IF Truthy(g[1]) /\ Truthy(g[2]) /\ Truthy(g[3])
             THEN <<LinkNode(g[2].val, g[3].val)>>
        ELSE IF g[4].def THEN <<MarkedNode(g[4].val, "code")>>
        ELSE IF Truthy(g[5]) THEN <<MarkedNode(g[5].val, "em")>>
        ELSE IF Truthy(g[6]) THEN <<MarkedNode(g[6].val, "strong")>>
        ELSE IF Truthy(g[7]) THEN <<MarkedNode(g[7].val, "strike")>>
        ELSE IF Truthy(g[8]) THEN <<MarkedNode(g[8].val, "strong")>>
        ELSE IF Truthy(g[9]) THEN <<MarkedNode(g[9].val, "em")>>
        ELSE <<>>

\* Mutant: the inline code branch tests the group for truthiness, as the
\* other branches do.
MatchedNodeCodeTruthy(m) ==
    LET g == m.groups
    IN  IF Truthy(g[1]) /\ Truthy(g[2]) /\ Truthy(g[3])
             THEN <<LinkNode(g[2].val, g[3].val)>>
        ELSE IF Truthy(g[4]) THEN <<MarkedNode(g[4].val, "code")>>
        ELSE IF Truthy(g[5]) THEN <<MarkedNode(g[5].val, "strong")>>
        ELSE IF Truthy(g[6]) THEN <<MarkedNode(g[6].val, "strong")>>
        ELSE IF Truthy(g[7]) THEN <<MarkedNode(g[7].val, "strike")>>
        ELSE IF Truthy(g[8]) THEN <<MarkedNode(g[8].val, "em")>>
        ELSE IF Truthy(g[9]) THEN <<MarkedNode(g[9].val, "em")>>
        ELSE <<>>

\* The if / else-if chain over the capture groups of a match.
MatchedNode(m) ==
    LET g == m.groups
    IN  IF Truthy(g[1]) /\ Truthy(g[2]) /\ Truthy(g[3])
             THEN <<LinkNode(g[2].val, g[3].val)>>
        ELSE IF g[4].def THEN <<MarkedNode(g[4].val, "code")>>
        ELSE IF Truthy(g[5]) THEN <<MarkedNode(g[5].val, "strong")>>
        ELSE IF Truthy(g[6]) THEN <<MarkedNode(g[6].val, "strong")>>
        ELSE IF Truthy(g[7]) THEN <<MarkedNode(g[7].val, "strike")>>
        ELSE IF Truthy(g[8]) THEN <<MarkedNode(g[8].val, "em")>>
        ELSE IF Truthy(g[9]) THEN <<MarkedNode(g[9].val, "em")>>
        ELSE <<>>

\* One iteration of the while loop: result after the pushes.
PushMatch(text, currentPos, result, m) ==
    result \o PlainBefore(text, currentPos, m) \o MatchedNode(m)

\* Mutant: the scan resumes on the last character of the match.
AfterMatchShort(m) == m.index + m.len - 1

\* currentPos = match.index + match[0].length
AfterMatch(m) == m.index + m.len

\* The code after the loop: the remaining plain text.
PushRemaining(text, currentPos, result) ==
    IF currentPos < Len(text)
    THEN LET plainText == SubstringFrom(text, currentPos)
         IN  IF plainText # <<>> THEN result \o <<PlainNode(plainText)>> ELSE result
    ELSE result

\* Mutant: nothing is returned for a text without formatting.
OrWholeTextMissing(text, result) == result

\* "If no formatting was found, return the original text"
OrWholeText(text, result) ==
    IF Len(result) = 0 THEN <<PlainNode(text)>> ELSE result

\* The loop run to its end from (currentPos, result); regex.lastIndex is
\* currentPos throughout (both start at 0 and both become the match's end).
RECURSIVE ParseFrom(_, _, _)
ParseFrom(text, currentPos, result) ==
    LET m == Exec(text, currentPos)
    IN  IF m.found
        THEN ParseFrom(text, AfterMatch(m), PushMatch(text, currentPos, result, m))
        ELSE OrWholeText(text, PushRemaining(text, currentPos, result))

parseInlineFormatting(text) == ParseFrom(text, 0, <<>>)

(* ----------------------------- textToADF ------------------------------- *)

\* The bullet character U+2022.
BulletChar == "BULLET"

Fence == <<Backtick, Backtick, Backtick>>

\* line.trim().startsWith(three backticks)
IsFence(line) == StartsWith(Trim(line), Fence)

\* Mutant: the text after the backticks is not trimmed.
FenceLanguageUntrimmed(line) == SubstringFrom(Trim(line), 3)

\* line.trim().substring(3).trim()
FenceLanguage(line) == Trim(SubstringFrom(Trim(line), 3))

\* Mutant: only the empty line is skipped.
IsBlankUntrimmed(line) == line = <<>>

\* line.trim() === ''
IsBlank(line) == Trim(line) = <<>>

MaxHeadingLevel == 6

\* (.+)$ from 0-based position from: the rest of the line, which must be
\* non-empty and free of line terminators.
RestIsContent(line, from) ==
    /\ from < Len(line)
    /\ \A k \in (from + 1)..Len(line) : line[k] \notin LineTerminators

\* line.match(/^(#{1,6})\s+(.+)$/): the hashes are greedy (at most six, and
\* the character after them must be white space), the white space is greedy
\* and gives characters back until the rest is content.
HeadingMatch(line) ==
    LET hashes == Scan(line, 0, {"#"}, FALSE)
        ws     == Scan(line, hashes, WhiteSpace, FALSE)
        starts == {k \in (hashes + 1)..ws : RestIsContent(line, k)}
    IN  IF hashes >= 1 /\ hashes <= MaxHeadingLevel /\ starts # {}
        THEN LET from == CHOOSE k \in starts : \A j \in starts : j <= k
             IN  [found |-> TRUE, level |-> hashes,
                  headingText |-> SubstringFrom(line, from)]
        ELSE [found |-> FALSE, level |-> 0, headingText |-> <<>>]

\* line.trim().match(/^[-*•]\s/)
IsBullet(line) ==
    LET t == Trim(line)
    IN  Len(t) >= 2 /\ t[1] \in {"-", "*", BulletChar} /\ t[2] \in WhiteSpace

\* line.trim().substring(2)
BulletItem(line) == SubstringFrom(Trim(line), 2)

\* The length of the prefix of t that /^\d+\.\s/ matches; 0 if it does not.
OrderedPrefix(t) ==
    LET d == Scan(t, 0, Digits, FALSE)
    IN  IF d >= 1 /\ Len(t) >= d + 2 /\ t[d + 1] = "." /\ t[d + 2] \in WhiteSpace
        THEN d + 2 ELSE 0

\* line.trim().match(/^\d+\.\s/)
IsOrdered(line) == OrderedPrefix(Trim(line)) > 0

\* line.trim().replace(/^\d+\.\s/, '')
OrderedItem(line) == SubstringFrom(Trim(line), OrderedPrefix(Trim(line)))

\* attrs: codeLanguage ? { language: codeLanguage } : {}
CodeAttrs(codeLanguage) ==
    [k \in (IF codeLanguage # <<>> THEN {"language"} ELSE {}) |-> codeLanguage]

CodeBlockNode(codeLanguage, codeBlockLines) ==
    [type |-> "codeBlock", attrs |-> CodeAttrs(codeLanguage),
     content |-> <<PlainNode(Join(codeBlockLines))>>]

HeadingNode(level, headingText) ==
    [type |-> "heading", attrs |-> [level |-> level],
     content |-> parseInlineFormatting(headingText)]

ParagraphNode(inline) == [type |-> "paragraph", content |-> inline]

ListItemNode(listItem) ==
    [type |-> "listItem",
     content |-> <<ParagraphNode(parseInlineFormatting(listItem))>>]

\* Mutant: an item is added to a list of either type.
LastIsAnyList(content, listType) ==
    Len(content) > 0 /\ content[Len(content)].type \in {"bulletList", "orderedList"}

\* content.length > 0 && content[content.length - 1].type === listType
LastIsList(content, listType) ==
    Len(content) > 0 /\ content[Len(content)].type = listType

\* Mutant: an item added to the list that ends content replaces its items.
PushListItemReplaces(content, listType, listItem) ==
    IF LastIsList(content, listType)
    THEN [content EXCEPT ![Len(content)].content = <<ListItemNode(listItem)>>]
    ELSE Append(content, [type |-> listType,
                          content |-> <<ListItemNode(listItem)>>])

\* Add the item to the list that ends content, or start a list of one item.
PushListItem(content, listType, listItem) ==
    IF LastIsList(content, listType)
    THEN [content EXCEPT ![Len(content)].content = @ \o <<ListItemNode(listItem)>>]
    ELSE Append(content, [type |-> listType,
                          content |-> <<ListItemNode(listItem)>>])

\* Mutant: the unclosed code block is dropped.
FlushUnclosedDropped(content, inCodeBlock, codeBlockLines, codeLanguage) == content

\* "Handle unclosed code block"
FlushUnclosed(content, inCodeBlock, codeBlockLines, codeLanguage) ==
    IF inCodeBlock /\ Len(codeBlockLines) > 0
    THEN Append(content, CodeBlockNode(codeLanguage, codeBlockLines))
    ELSE content

\* Mutant: the accumulated blocks are returned even when there are none.
DocOfNoSubstitute(content) == [type |-> "doc", version |-> 1, content |-> content]

\* The returned document.
DocOf(content) ==
    [type |-> "doc", version |-> 1,
     content |-> IF Len(content) > 0 THEN content
                 ELSE <<ParagraphNode(<<>>)>>]

(* ------------------------------- state -------------------------------- *)

VARIABLES
    \* textToADF
    text,            \* the argument
    lines,           \* text.split('\n')
    i,               \* the loop index (0-based)
    content,         \* the blocks emitted so far
    inCodeBlock,
    codeBlockLines,
    codeLanguage,
    calls,           \* the arguments of the calls of parseInlineFormatting so far
    doc,             \* the returned document
    pc,              \* "idle", "loop" or "done"
    \* parseInlineFormatting
    tokText,         \* the argument
    currentPos,
    result,
    tokPc,           \* "idle", "scan" or "returned"
    \* JiraClient.searchIssues
    jql,             \* the arguments
    maxResults,
    allIssues,
    nextPageToken,
    isLast,
    params,          \* the params of the request in flight (or of the last one)
    data,            \* response.data of the last response
    served,          \* server side: the number of issues handed out so far
    overAsked,       \* server side: a response held more issues than asked for
    searchResult,    \* the returned value
    searchPc,        \* "idle", "loop", "await", "return", "done" or "threw"
    \* expandPodAliases
    aliasJql,        \* the argument jql
    lastIndex,       \* podPattern.lastIndex during the replace
    replaced,        \* the text String.prototype.replace has built so far
    expandedJql,     \* the returned string
    podPc,           \* "idle", "replace" or "returned"
    \* JiraClient.addComment
    attachments,     \* the argument: left out, or a list of file paths
    fileIndex,       \* the position of the for loop in attachments (0-based)
    uploadedAttachments,
    commentPosted,   \* server side: the comment was posted
    attempts,        \* the calls of uploadAttachment so far and their outcomes
    commentResult,   \* the returned value
    commentPc,       \* "idle", "post", "upload", "done" or "threw"
    \* the CallToolRequest handler
    toolName,        \* request.params.name
    toolArgs,        \* request.params.arguments: left out, or an object
    clientCalls,     \* the operations of jiraClient called so far
    clientOutcome,   \* how the awaited operation ended
    callResult,      \* the returned result
    callPc           \* "idle", "start", "client", "returned" or "threw"

adfVars == <<text, lines, i, content, inCodeBlock, codeBlockLines,
             codeLanguage, calls, doc, pc>>
tokVars == <<tokText, currentPos, result, tokPc>>
searchVars == <<jql, maxResults, allIssues, nextPageToken, isLast, params,
                data, served, overAsked, searchResult, searchPc>>
podVars == <<aliasJql, lastIndex, replaced, expandedJql, podPc>>
commentVars == <<attachments, fileIndex, uploadedAttachments, commentPosted,
                 attempts, commentResult, commentPc>>
callVars == <<toolName, toolArgs, clientCalls, clientOutcome, callResult, callPc>>
clientVars == <<searchVars, podVars, commentVars, callVars>>
vars == <<text, lines, i, content, inCodeBlock, codeBlockLines,
          codeLanguage, calls, doc, pc, tokText, currentPos, result, tokPc,
          clientVars>>

NoDoc == [type |-> "none", version |-> 0, content |-> <<>>]

(* ------------------------------ inputs -------------------------------- *)

\* The lines the texts of the model are made of: one or more of each class
\* of line that textToADF tells apart.
LnBlank       == <<" ", "\t">>
LnFence       == <<Backtick, Backtick, Backtick>>
LnFenceLang   == <<" ", Backtick, Backtick, Backtick, " ", "j", "s", " ">>
LnHeading     == <<"#", "#", " ", "*", "a", "*">>
LnHeadingCR   == <<"#", " ", "a", "\r">>
LnSevenHashes == <<"#", "#", "#", "#", "#", "#", "#", " ", "a">>
LnBullet      == <<"-", " ", "a">>
LnBulletStar  == <<" ", "*", " ", "b">>
LnOrdered     == <<"1", "2", ".", " ", "c">>
LnParagraph   == <<"x", " ">>

LineSet == {LnBlank, LnFence, LnFenceLang, LnHeading, LnHeadingCR,
            LnSevenHashes, LnBullet, LnBulletStar, LnOrdered, LnParagraph}

\* The texts: at most MaxLines lines of LineSet joined by newlines.
Texts == UNION {{Join(ls) : ls \in [1..n -> LineSet]} : n \in 0..MaxLines}

\* The characters of the lines handed to parseInlineFormatting: the
\* delimiters of the emphasis and code spans with a letter, and those of
\* links (a label or a href may be any of them but its own closing one).
EmphAlphabet == {"*", "_", "~", Backtick, "a"}
LinkAlphabet == {"[", "]", "(", ")"}
StarAlphabet == {"*", "a"}

TokLines ==
    UNION {[1..n -> EmphAlphabet] : n \in 0..MaxLen}
        \cup UNION {[1..n -> LinkAlphabet] : n \in 0..MaxLinkLen}
        \cup UNION {[1..n -> StarAlphabet] : n \in 0..MaxStarLen}

(* -------------------------- expandPodAliases: data --------------------- *)

\* POD_ALIASES: the keys of the object and their values.
POD_ALIASES ==
    {<<<<"w", "o", "r", "k", "f", "l", "o", "w">>,
       <<"P", "o", "d", " ", "1", " ", "W", "o", "r", "k", "f", "l", "o",
         "w">>>>,
     <<<<"p", "o", "d", "1">>,
       <<"P", "o", "d", " ", "1", " ", "W", "o", "r", "k", "f", "l", "o",
         "w">>>>,
     <<<<"p", "o", "d", " ", "1">>,
       <<"P", "o", "d", " ", "1", " ", "W", "o", "r", "k", "f", "l", "o",
         "w">>>>,
     <<<<"g", "r", "o", "w", "t", "h">>,
       <<"P", "o", "d", " ", "2", " ", "G", "r", "o", "w", "t", "h">>>>,
     <<<<"p", "o", "d", "2">>,
       <<"P", "o", "d", " ", "2", " ", "G", "r", "o", "w", "t", "h">>>>,
     <<<<"p", "o", "d", " ", "2">>,
       <<"P", "o", "d", " ", "2", " ", "G", "r", "o", "w", "t", "h">>>>,
     <<<<"p", "l", "a", "t", "f", "o", "r", "m">>,
       <<"P", "l", "a", "t", "f", "o", "r", "m", " ", "P", "o", "d">>>>,
     <<<<"s", "i", "t", "e", "o", "p", "s">>,
       <<"P", "o", "d", " ", "S", "i", "t", "e", "O", "p", "s">>>>,
     <<<<"s", "i", "t", "e", " ", "o", "p", "s">>,
       <<"P", "o", "d", " ", "S", "i", "t", "e", "O", "p", "s">>>>,
     <<<<"a", "i">>,
       <<"A", "I", " ", "P", "o", "d">>>>,
     <<<<"d", "s">>,
       <<"D", "S", " ", "P", "o", "d">>>>,
     <<<<"d", "e", "s", "i", "g", "n">>,
       <<"D", "S", " ", "P", "o", "d">>>>,
     <<<<"s", "c", "a", "l", "e">>,
       <<"S", "c", "a", "l", "e", " ", "P", "o", "d">>>>}

\* The properties every plain object inherits whose names are lower case,
\* constructor and __proto__, and what a template literal makes of their
\* values Object.prototype.constructor and Object.prototype.
InheritedProperties ==
    {<<<<"c", "o", "n", "s", "t", "r", "u", "c", "t", "o", "r">>,
       <<"f", "u", "n", "c", "t", "i", "o", "n", " ", "O", "b", "j", "e",
         "c", "t", "(", ")", " ", "{", " ", "[", "n", "a", "t", "i", "v",
         "e", " ", "c", "o", "d", "e", "]", " ", "}">>>>,
     <<<<"_", "_", "p", "r", "o", "t", "o", "_", "_">>,
       <<"[", "o", "b", "j", "e", "c", "t", " ", "O", "b", "j", "e", "c",
         "t", "]">>>>}

UpperCase ==
    <<"A", "B", "C", "D", "E", "F", "G", "H", "I", "J", "K", "L", "M", "N",
      "O", "P", "Q", "R", "S", "T", "U", "V", "W", "X", "Y", "Z">>
LowerCase ==
    <<"a", "b", "c", "d", "e", "f", "g", "h", "i", "j", "k", "l", "m", "n",
      "o", "p", "q", "r", "s", "t", "u", "v", "w", "x", "y", "z">>

\* c.toLowerCase()
ToLowerChar(c) ==
    IF \E k \in 1..Len(UpperCase) : UpperCase[k] = c
    THEN LowerCase[CHOOSE k \in 1..Len(UpperCase) : UpperCase[k] = c]
    ELSE c

\* s.toLowerCase()
ToLowerCase(s) == [k \in 1..Len(s) |-> ToLowerChar(s[k])]

\* podName.toLowerCase().trim()
Normalize(podName) == Trim(ToLowerCase(podName))

\* POD_ALIASES[key]: the value of the key, of the object or inherited, or
\* undefined.
Lookup(key) ==
    IF \E e \in POD_ALIASES : e[1] = key
    THEN Group((CHOOSE e \in POD_ALIASES : e[1] = key)[2])
    ELSE IF \E e \in InheritedProperties : e[1] = key
    THEN Group((CHOOSE e \in InheritedProperties : e[1] = key)[2])
    ELSE Undefined

Quotes == {"\"", "'"}

NoPodMatch == [found |-> FALSE, index |-> 0, len |-> 0, podName |-> <<>>]

\* /Pod\s*=\s*["']([^"']+)["']/i tried at position p: the keyword in any
\* case, an equals sign with optional white space around it, a quote, one
\* or more characters that are not quotes, a quote.
PodPatternAt(s, p) ==
    IF ~(p + 3 <= Len(s) /\ ToLowerCase(Substring(s, p, p + 3)) = <<"p", "o", "d">>)
    THEN NoPodMatch
    ELSE LET eq == Scan(s, p + 3, WhiteSpace, FALSE)
         IN  IF ~StartsWithAt(s, <<"=">>, eq) THEN NoPodMatch
             ELSE LET open == Scan(s, eq + 1, WhiteSpace, FALSE)
                  IN  IF ~(open < Len(s) /\ s[open + 1] \in Quotes) THEN NoPodMatch
                      ELSE LET close == Scan(s, open + 1, Quotes, TRUE)
                           IN  IF close - (open + 1) >= 1 /\ close < Len(s)
                               THEN [found |-> TRUE, index |-> p,
                                     len |-> close + 1 - p,
                                     podName |-> Substring(s, open + 1, close)]
                               ELSE NoPodMatch

\* The next match of the global pattern at or after position from.
RECURSIVE PodExec(_, _)
PodExec(s, from) ==
    IF from >= Len(s) THEN NoPodMatch
    ELSE LET m == PodPatternAt(s, from)
         IN  IF m.found THEN m ELSE PodExec(s, from + 1)

\* The replace callback: Pod = "<full pod name>" for an alias, the match
\* itself otherwise.
Replacement(s, m) ==
    LET normalizedPod == Normalize(m.podName)
        fullPodName == Lookup(normalizedPod)
    IN  IF Truthy(fullPodName)
        THEN <<"P", "o", "d", " ", "=", " ", "\"">> \o fullPodName.val \o <<"\"">>
        ELSE Substring(s, m.index, m.index + m.len)

PodIdle ==
    /\ aliasJql = <<>> /\ lastIndex = 0 /\ replaced = <<>>
    /\ expandedJql = <<>> /\ podPc = "idle"

(* --------------------- JiraClient.searchIssues: data ------------------- *)

\* maxResults: number = 50
DefaultMaxResults == 50

\* Math.min(100, ...): the largest page searchIssues asks for.
PageLimit == 100

\* Math.min(a, b)
MathMin(a, b) == IF a < b THEN a ELSE b

\* fields: 'summary,status,assignee,reporter,created,updated,issuetype'
SearchFields == "summary,status,assignee,reporter,created,updated,issuetype"

\* The default parameter value of maxResults.
MaxResultsOf(arg) == IF arg.def THEN arg.val ELSE DefaultMaxResults

\* The isLast field of a response is "true", "false", or "undefined" when
\* it is not there.

\* No request was made yet / no response was received yet.
NoParams == [jql |-> "", maxResults |-> 0, fields |-> "", nextPageToken |-> Undefined]
NoData == [issues |-> Undefined, isLast |-> "undefined", nextPageToken |-> Undefined]

NoResult == [issues |-> <<>>, total |-> -1, isLast |-> FALSE]

SearchIdle ==
    /\ jql = "" /\ maxResults = 0 /\ allIssues = <<>>
    /\ nextPageToken = Undefined /\ isLast = FALSE
    /\ params = NoParams /\ data = NoData /\ served = 0 /\ overAsked = FALSE
    /\ searchResult = NoResult /\ searchPc = "idle"

\* The data of the response to the comment post.
CommentData == [id |-> "comment"]

NoCommentResult == [comment |-> [id |-> ""], attachments |-> <<>>]

CommentIdle ==
    /\ attachments = Undefined /\ fileIndex = 0 /\ uploadedAttachments = <<>>
    /\ commentPosted = FALSE /\ attempts = <<>>
    /\ commentResult = NoCommentResult /\ commentPc = "idle"

\* A result of the handler; a result the source builds without isError has
\* isError = FALSE.
ToolResult(t, isError) ==
    [content |-> <<[type |-> "text", text |-> t]>>, isError |-> isError]

NoCallResult == ToolResult(<<>>, FALSE)

\* No operation of jiraClient was awaited.
NoOutcome == [kind |-> "none", value |-> "", instanceofError |-> FALSE]

CallIdle ==
    /\ toolName = "" /\ toolArgs = Undefined /\ clientCalls = <<>>
    /\ clientOutcome = NoOutcome /\ callResult = NoCallResult /\ callPc = "idle"

ClientIdle == SearchIdle /\ PodIdle /\ CommentIdle /\ CallIdle

(* ------------------------- textToADF, by line ------------------------- *)

AdfIdle ==
    /\ text = <<>> /\ lines = <<>> /\ i = 0 /\ content = <<>>
    /\ inCodeBlock = FALSE /\ codeBlockLines = <<>> /\ codeLanguage = <<>>
    /\ calls = <<>> /\ doc = NoDoc /\ pc = "idle"

TokIdle ==
    /\ tokText = <<>> /\ currentPos = 0 /\ result = <<>> /\ tokPc = "idle"

\* The state at the top of the for loop of textToADF(t).
AdfInit ==
    /\ \E n \in 0..MaxLines : \E ls \in [1..n -> LineSet] : text = Join(ls)
    /\ lines = Split(text)
    /\ i = 0
    /\ content = <<>>
    /\ inCodeBlock = FALSE
    /\ codeBlockLines = <<>>
    /\ codeLanguage = <<>>
    /\ calls = <<>>
    /\ doc = NoDoc
    /\ pc = "loop"

\* const line = lines[i]
line == lines[i + 1]

\* Mutant: the loop stops one line early.
InLoopShort == pc = "loop" /\ i < Len(lines) - 1

InLoop == pc = "loop" /\ i < Len(lines)

\* A fence line while no code block is open.
OpenFence ==
    /\ InLoop /\ IsFence(line) /\ ~inCodeBlock
    /\ inCodeBlock' = TRUE
    /\ codeLanguage' = FenceLanguage(line)
    /\ codeBlockLines' = <<>>
    /\ i' = i + 1
    /\ UNCHANGED <<text, lines, content, calls, doc, pc, tokVars, clientVars>>

\* A fence line while a code block is open.
CloseFence ==
    /\ InLoop /\ IsFence(line) /\ inCodeBlock
    /\ inCodeBlock' = FALSE
    /\ content' = Append(content, CodeBlockNode(codeLanguage, codeBlockLines))
    /\ codeBlockLines' = <<>>
    /\ codeLanguage' = <<>>
    /\ i' = i + 1
    /\ UNCHANGED <<text, lines, calls, doc, pc, tokVars, clientVars>>

\* Mutant: the empty-line test comes before the code-block test.
CodeLineSkipsBlank ==
    /\ pc = "loop" /\ i < Len(lines) /\ ~IsFence(line) /\ inCodeBlock
    /\ codeBlockLines' =
          IF IsBlank(line) THEN codeBlockLines ELSE Append(codeBlockLines, line)
    /\ i' = i + 1
    /\ UNCHANGED <<text, lines, content, inCodeBlock, codeLanguage, calls,
                   doc, pc, tokVars, clientVars>>

\* "Collect lines inside code block"
CodeLine ==
    /\ InLoop /\ ~IsFence(line) /\ inCodeBlock
    /\ codeBlockLines' = Append(codeBlockLines, line)
    /\ i' = i + 1
    /\ UNCHANGED <<text, lines, content, inCodeBlock, codeLanguage, calls,
                   doc, pc, tokVars, clientVars>>

Outside == InLoop /\ ~IsFence(line) /\ ~inCodeBlock

\* "Skip empty lines"
BlankLine ==
    /\ Outside /\ IsBlank(line)
    /\ i' = i + 1
    /\ UNCHANGED <<text, lines, content, inCodeBlock, codeBlockLines,
                   codeLanguage, calls, doc, pc, tokVars, clientVars>>

HeadingLine ==
    /\ Outside /\ ~IsBlank(line)
    /\ \E headingMatch \in {HeadingMatch(line)} :
          /\ headingMatch.found
          /\ content' = Append(content,
                  HeadingNode(headingMatch.level, headingMatch.headingText))
          /\ calls' = Append(calls, headingMatch.headingText)
    /\ i' = i + 1
    /\ UNCHANGED <<text, lines, inCodeBlock, codeBlockLines, codeLanguage,
                   doc, pc, tokVars, clientVars>>

BulletLine ==
    /\ Outside /\ ~IsBlank(line) /\ ~HeadingMatch(line).found
    /\ IsBullet(line)
    /\ content' = PushListItem(content, "bulletList", BulletItem(line))
    /\ calls' = Append(calls, BulletItem(line))
    /\ i' = i + 1
    /\ UNCHANGED <<text, lines, inCodeBlock, codeBlockLines, codeLanguage,
                   doc, pc, tokVars, clientVars>>

OrderedLine ==
    /\ Outside /\ ~IsBlank(line) /\ ~HeadingMatch(line).found
    /\ ~IsBullet(line) /\ IsOrdered(line)
    /\ content' = PushListItem(content, "orderedList", OrderedItem(line))
    /\ calls' = Append(calls, OrderedItem(line))
    /\ i' = i + 1
    /\ UNCHANGED <<text, lines, inCodeBlock, codeBlockLines, codeLanguage,
                   doc, pc, tokVars, clientVars>>

ParagraphLine ==
    /\ Outside /\ ~IsBlank(line) /\ ~HeadingMatch(line).found
    /\ ~IsBullet(line) /\ ~IsOrdered(line)
    /\ content' = Append(content, ParagraphNode(parseInlineFormatting(line)))
    /\ calls' = Append(calls, line)
    /\ i' = i + 1
    /\ UNCHANGED <<text, lines, inCodeBlock, codeBlockLines, codeLanguage,
                   doc, pc, tokVars, clientVars>>

\* After the loop: flush an unclosed code block and return the document.
Return ==
    /\ pc = "loop" /\ i >= Len(lines)
    /\ content' = FlushUnclosed(content, inCodeBlock, codeBlockLines, codeLanguage)
    /\ doc' = DocOf(content')
    /\ pc' = "done"
    /\ UNCHANGED <<text, lines, i, inCodeBlock, codeBlockLines, codeLanguage,
                   calls, tokVars, clientVars>>

Init == AdfInit /\ TokIdle /\ ClientIdle

Next ==
    \/ OpenFence \/ CloseFence \/ CodeLine \/ BlankLine \/ HeadingLine
    \/ BulletLine \/ OrderedLine \/ ParagraphLine \/ Return

Spec == Init /\ [][Next]_vars

(* -------------------- parseInlineFormatting, by match ----------------- *)

TokInit ==
    /\ \/ \E n \in 0..MaxLen : tokText \in [1..n -> EmphAlphabet]
       \/ \E n \in 0..MaxLinkLen : tokText \in [1..n -> LinkAlphabet]
       \/ \E n \in 0..MaxStarLen : tokText \in [1..n -> StarAlphabet]
    /\ currentPos = 0
    /\ result = <<>>
    /\ tokPc = "scan"

\* regex.exec found a match: one iteration of the while loop.
TokMatch ==
    /\ tokPc = "scan"
    /\ \E match \in {Exec(tokText, currentPos)} :
          /\ match.found
          /\ result' = PushMatch(tokText, currentPos, result, match)
          /\ currentPos' = AfterMatch(match)
    /\ UNCHANGED <<tokText, tokPc, adfVars, clientVars>>

\* regex.exec returned null: the code after the loop, and the return.
TokReturn ==
    /\ tokPc = "scan"
    /\ ~Exec(tokText, currentPos).found
    /\ result' = OrWholeText(tokText, PushRemaining(tokText, currentPos, result))
    /\ tokPc' = "returned"
    /\ UNCHANGED <<tokText, currentPos, adfVars, clientVars>>

InitTok == TokInit /\ AdfIdle /\ ClientIdle

NextTok == TokMatch \/ TokReturn

SpecTok == InitTok /\ [][NextTok]_vars

(* ----------------- JiraClient.searchIssues, by request --------------- *)

\* How far the maxResults of a call goes from 0 and beyond PageLimit.
MaxSmall == 3
MaxOver == 2

\* The maxResults argument of a call: left out, a small number (negative
\* and 0 included), or a number around PageLimit.
MaxResultsArgs ==
    {Undefined}
        \cup {Group(n) : n \in (-1..MaxSmall) \cup ((PageLimit - 1)..(PageLimit + MaxOver))}

Queries == {"project = A", "status = Open"}

\* The state at the first evaluation of the loop condition.
SearchInit ==
    /\ jql \in Queries
    /\ \E arg \in MaxResultsArgs : maxResults = MaxResultsOf(arg)
    /\ allIssues = <<>>
    /\ nextPageToken = Undefined
    /\ isLast = FALSE
    /\ params = NoParams /\ data = NoData /\ served = 0 /\ overAsked = FALSE
    /\ searchResult = NoResult
    /\ searchPc = "loop"

\* while (!isLast && allIssues.length < maxResults)
LoopCondition == ~isLast /\ Len(allIssues) < maxResults

\* Mutant: every request asks for a full page.
RequestSizeFullPage(max, collected) == PageLimit

\* maxResults: Math.min(100, maxResults - allIssues.length)
RequestSize(max, collected) == MathMin(PageLimit, max - collected)

\* The loop body up to the await: the request is built and sent.
SearchRequest ==
    /\ searchPc = "loop"
    /\ LoopCondition
    /\ params' = [jql |-> jql,
                  maxResults |-> RequestSize(maxResults, Len(allIssues)),
                  fields |-> SearchFields,
                  nextPageToken |->
                      IF Truthy(nextPageToken) THEN nextPageToken ELSE Undefined]
    /\ searchPc' = "await"
    /\ UNCHANGED <<jql, maxResults, allIssues, nextPageToken, isLast, data,
                   served, overAsked, searchResult, adfVars, tokVars, podVars,
                   commentVars, callVars>>

\* The next n issues of the server.
FreshIssues(from, n) == [k \in 1..n |-> from + k]

\* The sizes of the page a server may answer a request for r issues with:
\* none, one, one less than asked, as many as asked, one more than asked.
PageSizes(r) == {n \in {0, 1, r - 1, r, r + 1} : n >= 0}

\* The responses to a request for r issues: issues may be missing, isLast
\* may be missing, and nextPageToken may be missing, the empty string, or a
\* token that names the page after this one.
Responses(r, from) ==
    {[issues |-> is, isLast |-> il, nextPageToken |-> t] :
        is \in {Undefined} \cup {Group(FreshIssues(from, n)) : n \in PageSizes(r)},
        il \in {"true", "false", "undefined"},
        t \in {Undefined, Group(<<>>), Group(<<from>>)}}

\* data.issues || []
IssuesOrEmpty(d) == IF d.issues.def THEN d.issues.val ELSE <<>>

\* Mutant: an empty page does not end the loop.
BreakConditionIgnoresEmpty(d, token, last) ==
    \/ ~d.issues.def
    \/ (~Truthy(token) /\ ~last)

\* !data.issues || data.issues.length === 0 || (!nextPageToken && !isLast)
BreakCondition(d, token, last) ==
    \/ ~d.issues.def
    \/ Len(d.issues.val) = 0
    \/ (~Truthy(token) /\ ~last)

\* allIssues.concat(data.issues || [])
ConcatIssues(all, d) == all \o IssuesOrEmpty(d)

\* The response arrives: the loop body after the await.
SearchResponse ==
    /\ searchPc = "await"
    /\ \E d \in Responses(params.maxResults, served) :
          /\ data' = d
          /\ allIssues' = ConcatIssues(allIssues, d)
          /\ isLast' = (d.isLast # "false")
          /\ nextPageToken' = d.nextPageToken
          /\ served' = served + Len(IssuesOrEmpty(d))
          /\ overAsked' = (overAsked \/ Len(IssuesOrEmpty(d)) > params.maxResults)
          /\ searchPc' = IF BreakCondition(d, d.nextPageToken, d.isLast # "false")
                         THEN "return" ELSE "loop"
    /\ UNCHANGED <<jql, maxResults, params, searchResult, adfVars, tokVars,
                   podVars, commentVars, callVars>>

\* this.client.get rejects: the error leaves searchIssues.
SearchReject ==
    /\ searchPc = "await"
    /\ searchPc' = "threw"
    /\ UNCHANGED <<jql, maxResults, allIssues, nextPageToken, isLast, params,
                   data, served, overAsked, searchResult, adfVars, tokVars,
                   podVars, commentVars, callVars>>

\* return { issues: allIssues, total: allIssues.length, isLast: true }
ResultOf(all, max) == [issues |-> all, total |-> Len(all), isLast |-> TRUE]

\* The loop is left, by its condition or by the break, and the result is
\* returned.
SearchReturn ==
    /\ \/ searchPc = "return"
       \/ searchPc = "loop" /\ ~LoopCondition
    /\ searchResult' = ResultOf(allIssues, maxResults)
    /\ searchPc' = "done"
    /\ UNCHANGED <<jql, maxResults, allIssues, nextPageToken, isLast, params,
                   data, served, overAsked, adfVars, tokVars, podVars,
                   commentVars, callVars>>

InitSearch ==
    SearchInit /\ AdfIdle /\ TokIdle /\ PodIdle /\ CommentIdle /\ CallIdle

NextSearch == SearchRequest \/ SearchResponse \/ SearchReject \/ SearchReturn

SpecSearch == InitSearch /\ [][NextSearch]_vars

\* Every request is answered or fails, and the code between two awaits
\* runs.
SpecSearchFair == SpecSearch /\ WF_vars(NextSearch)

(* ----------------------- expandPodAliases, by match -------------------- *)

\* Number of clauses of the query handed to expandPodAliases.
MaxClauses == 2

\* Pod = "workflow"
ClWorkflow ==
    <<"P", "o", "d", " ", "=", " ", "\"", "w", "o", "r", "k", "f", "l",
      "o", "w", "\"">>

\* The clauses of the queries: an alias; the keyword in lower case, no
\* spaces, single quotes and the name in upper case; the keyword in upper
\* case and spaces around the name; an alias with a space in it; a name
\* that is not an alias; a name that is no alias but a property of every
\* object; the keyword at the end of a longer word; quotes that do not
\* match; a clause of another field; an empty name; another operator; a
\* full pod name.
ClauseSet ==
    {ClWorkflow,
     <<"p", "o", "d", "=", "'", "A", "I", "'">>,
     <<"P", "O", "D", " ", " ", "=", " ", " ", "\"", " ", "d", "s", " ",
       "\"">>,
     <<"P", "o", "d", " ", "=", " ", "\"", "p", "o", "d", " ", "1", "\"">>,
     <<"P", "o", "d", " ", "=", " ", "\"", "z", "z", "\"">>,
     <<"P", "o", "d", " ", "=", " ", "\"", "c", "o", "n", "s", "t", "r",
       "u", "c", "t", "o", "r", "\"">>,
     <<"t", "r", "i", "p", "o", "d", " ", "=", " ", "\"", "a", "i", "\"">>,
     <<"P", "o", "d", " ", "=", " ", "\"", "a", "i", "'">>,
     <<"s", "t", "a", "t", "u", "s", " ", "=", " ", "\"", "a", "i", "\"">>,
     <<"P", "o", "d", " ", "=", " ", "\"", "\"">>,
     <<"P", "o", "d", " ", "~", " ", "\"", "a", "i", "\"">>,
     <<"P", "o", "d", " ", "=", " ", "\"", "P", "o", "d", " ", "1", " ",
       "W", "o", "r", "k", "f", "l", "o", "w", "\"">>}

\* The clauses joined by AND.
RECURSIVE JoinAnd(_)
JoinAnd(cs) ==
    IF cs = <<>> THEN <<>>
    ELSE IF Len(cs) = 1 THEN cs[1]
    ELSE cs[1] \o <<" ", "A", "N", "D", " ">> \o JoinAnd(Tail(cs))

\* The state when String.prototype.replace starts on jql.
PodInit ==
    /\ \E n \in 0..MaxClauses : \E cs \in [1..n -> ClauseSet] : aliasJql = JoinAnd(cs)
    /\ lastIndex = 0
    /\ replaced = <<>>
    /\ expandedJql = <<>>
    /\ podPc = "replace"

\* The pattern matches: the text before the match is kept and the callback
\* gives the text that takes the place of the match.
PodReplace ==
    /\ podPc = "replace"
    /\ \E m \in {PodExec(aliasJql, lastIndex)} :
          /\ m.found
          /\ replaced' = replaced \o Substring(aliasJql, lastIndex, m.index)
                              \o Replacement(aliasJql, m)
          /\ lastIndex' = m.index + m.len
    /\ UNCHANGED <<aliasJql, expandedJql, podPc, adfVars, tokVars, searchVars,
                   commentVars, callVars>>

\* No further match: the rest of the text is kept, and the string is
\* returned.
PodReturn ==
    /\ podPc = "replace"
    /\ ~PodExec(aliasJql, lastIndex).found
    /\ replaced' = replaced \o SubstringFrom(aliasJql, lastIndex)
    /\ expandedJql' = replaced'
    /\ podPc' = "returned"
    /\ UNCHANGED <<aliasJql, lastIndex, adfVars, tokVars, searchVars,
                   commentVars, callVars>>

InitPod ==
    PodInit /\ AdfIdle /\ TokIdle /\ SearchIdle /\ CommentIdle /\ CallIdle

NextPod == PodReplace \/ PodReturn

SpecPod == InitPod /\ [][NextPod]_vars

(* ------------------- JiraClient.addComment, by request ---------------- *)

\* Number of file paths handed to addComment.
MaxFiles == 3

FileSet == {"a.png", "b.txt"}

\* The state at the call: the comment is about to be posted.
CommentInit ==
    /\ \/ attachments = Undefined
       \/ \E n \in 0..MaxFiles : \E fs \in [1..n -> FileSet] : attachments = Group(fs)
    /\ fileIndex = 0
    /\ uploadedAttachments = <<>>
    /\ commentPosted = FALSE
    /\ attempts = <<>>
    /\ commentResult = NoCommentResult
    /\ commentPc = "post"

\* attachments && attachments.length > 0
HasAttachments == attachments.def /\ Len(attachments.val) > 0

\* The post of the comment succeeds: without attachments its data is
\* returned, with attachments the uploads begin.
CommentPost ==
    /\ commentPc = "post"
    /\ commentPosted' = TRUE
    /\ IF HasAttachments
       THEN commentPc' = "upload" /\ UNCHANGED commentResult
       ELSE commentPc' = "done" /\ commentResult' = CommentData
    /\ UNCHANGED <<attachments, fileIndex, uploadedAttachments, attempts,
                   adfVars, tokVars, searchVars, podVars,
                   callVars>>

\* The post of the comment rejects: the error leaves addComment.
CommentPostRejects ==
    /\ commentPc = "post"
    /\ commentPc' = "threw"
    /\ UNCHANGED <<attachments, fileIndex, uploadedAttachments, commentPosted,
                   attempts, commentResult, adfVars, tokVars, searchVars, podVars,
                   callVars>>

\* The number of attachments the server has stored so far.
RECURSIVE Stored(_)
Stored(as) ==
    IF as = <<>> THEN 0 ELSE Len(Head(as).uploaded) + Stored(Tail(as))

\* The outcomes of uploadAttachment(issueKey, filePath): the file is not
\* found, the post rejects, or the post answers with the list of the
\* attachments stored for the file (one, or two); the value is the mapped
\* response.data.
UploadOutcomes(filePath, stored) ==
    {[file |-> filePath, ok |-> FALSE, error |-> e, uploaded |-> <<>>]
        : e \in {"File not found", "post rejected"}}
        \cup {[file |-> filePath, ok |-> TRUE, error |-> "",
               uploaded |-> [k \in 1..n |-> [id |-> stored + k, filename |-> filePath]]]
                  : n \in 1..2}

\* Mutant: the uploads of a file take the place of the list.
PushUploadedReplaces(list, uploaded) == uploaded

\* uploadedAttachments.push(...uploaded)
PushUploaded(list, uploaded) == list \o uploaded

\* One iteration of the for loop: uploadAttachment is awaited inside try,
\* and an error is caught and logged; after the last file the result is
\* returned.
UploadFile ==
    /\ commentPc = "upload"
    /\ fileIndex < Len(attachments.val)
    /\ \E o \in UploadOutcomes(attachments.val[fileIndex + 1], Stored(attempts)) :
          /\ attempts' = Append(attempts, o)
          /\ uploadedAttachments' =
                IF o.ok THEN PushUploaded(uploadedAttachments, o.uploaded)
                ELSE uploadedAttachments
    /\ fileIndex' = fileIndex + 1
    /\ IF fileIndex' = Len(attachments.val)
       THEN /\ commentPc' = "done"
            /\ commentResult' = [comment |-> CommentData,
                                 attachments |-> uploadedAttachments']
       ELSE UNCHANGED <<commentPc, commentResult>>
    /\ UNCHANGED <<attachments, commentPosted, adfVars, tokVars, searchVars,
                   podVars, callVars>>

InitComment ==
    CommentInit /\ AdfIdle /\ TokIdle /\ SearchIdle /\ PodIdle /\ CallIdle

NextComment == CommentPost \/ CommentPostRejects \/ UploadFile

SpecComment == InitComment /\ [][NextComment]_vars

(* ---------------------- the CallToolRequest handler -------------------- *)

\* The cases of the switch and the operation of jiraClient each awaits.
ToolOperations ==
    {<<"get_issue", "getIssue">>, <<"search_issues", "searchIssues">>,
     <<"create_issue", "createIssue">>, <<"update_issue", "updateIssue">>,
     <<"add_comment", "addComment">>, <<"delete_comment", "deleteComment">>,
     <<"get_attachments", "getAttachments">>,
     <<"download_attachment", "downloadAttachment">>,
     <<"add_attachment", "uploadAttachment">>,
     <<"get_comprehensive_issue", "getComprehensiveIssue">>,
     <<"analyze_ticket", "getComprehensiveIssue">>}

ToolNames == {t[1] : t \in ToolOperations}

OperationOf(tool) == (CHOOSE t \in ToolOperations : t[1] = tool)[2]

\* The arguments of a request: left out, an object without jql, or an
\* object with jql.
ArgumentsSet == {Undefined, Group([jql |-> Undefined]), Group([jql |-> Group(ClWorkflow)])}

\* The state at the call of the handler.
CallInit ==
    /\ toolName \in ToolNames \cup {"no_such_tool"}
    /\ toolArgs \in ArgumentsSet
    /\ clientCalls = <<>>
    /\ clientOutcome = NoOutcome
    /\ callResult = NoCallResult
    /\ callPc = "start"

\* How an awaited operation may end: it resolves with a result, it throws
\* an Error with a message, or it throws a value that is not an Error
\* (value is then String(error)).
Outcomes ==
    {[kind |-> "resolve", value |-> "result", instanceofError |-> FALSE],
     [kind |-> "throw", value |-> "Request failed with status code 404",
      instanceofError |-> TRUE],
     [kind |-> "throw", value |-> "File not found: a.png", instanceofError |-> TRUE],
     [kind |-> "throw", value |-> "timeout", instanceofError |-> FALSE]}

\* jql.replace(...) on a jql that is not there.
TypeErrorOfReplace ==
    [kind |-> "throw",
     value |-> "Cannot read properties of undefined (reading 'replace')",
     instanceofError |-> TRUE]

\* Mutant: an error is thrown on to the caller of the handler.
CaughtRethrown(error) == [pc |-> "threw", result |-> NoCallResult]

\* catch (error): the result with the message of the error.
Caught(error) ==
    [pc |-> "returned",
     result |-> ToolResult(<<"Error: ", error.value>>, TRUE)]

\* if (!args)
MissingArguments(args) == ~args.def

\* A request without arguments is answered at once.
CallWithoutArguments ==
    /\ callPc = "start"
    /\ MissingArguments(toolArgs)
    /\ callResult' = ToolResult(<<"Error: Missing arguments">>, TRUE)
    /\ callPc' = "returned"
    /\ UNCHANGED <<toolName, toolArgs, clientCalls, clientOutcome, adfVars,
                   tokVars, searchVars, podVars, commentVars>>

\* default: the name is none of the cases.
CallUnknownTool ==
    /\ callPc = "start"
    /\ ~MissingArguments(toolArgs)
    /\ toolName \notin ToolNames
    /\ callResult' = ToolResult(<<"Unknown tool: ", toolName>>, TRUE)
    /\ callPc' = "returned"
    /\ UNCHANGED <<toolName, toolArgs, clientCalls, clientOutcome, adfVars,
                   tokVars, searchVars, podVars, commentVars>>

\* case 'search_issues' with no jql: expandPodAliases throws inside try.
ExpandThrows ==
    toolName = "search_issues" /\ toolArgs.def /\ ~toolArgs.val.jql.def

CallExpandThrows ==
    /\ callPc = "start"
    /\ ~MissingArguments(toolArgs)
    /\ ExpandThrows
    /\ \E c \in {Caught(TypeErrorOfReplace)} :
          callResult' = c.result /\ callPc' = c.pc
    /\ UNCHANGED <<toolName, toolArgs, clientCalls, clientOutcome, adfVars,
                   tokVars, searchVars, podVars, commentVars>>

\* A case of the switch calls its operation of jiraClient and awaits it.
CallClient ==
    /\ callPc = "start"
    /\ ~MissingArguments(toolArgs)
    /\ toolName \in ToolNames
    /\ ~ExpandThrows
    /\ clientCalls' = Append(clientCalls, OperationOf(toolName))
    /\ callPc' = "client"
    /\ UNCHANGED <<toolName, toolArgs, clientOutcome, callResult, adfVars,
                   tokVars, searchVars, podVars, commentVars>>

\* The operation ends: its result is returned as JSON text (for
\* analyze_ticket the analysis of the result, which generateTicketAnalysis
\* makes without throwing), or its error is caught.
ClientEnds ==
    /\ callPc = "client"
    /\ \E o \in Outcomes :
          /\ clientOutcome' = o
          /\ IF o.kind = "resolve"
             THEN /\ callResult' =
                        ToolResult(<<"JSON", IF toolName = "analyze_ticket"
                                             THEN "analysis" ELSE o.value>>, FALSE)
                  /\ callPc' = "returned"
             ELSE \E c \in {Caught(o)} : callResult' = c.result /\ callPc' = c.pc
    /\ UNCHANGED <<toolName, toolArgs, clientCalls, adfVars, tokVars,
                   searchVars, podVars, commentVars>>

InitCall ==
    CallInit /\ AdfIdle /\ TokIdle /\ SearchIdle /\ PodIdle /\ CommentIdle

NextCall ==
    \/ CallWithoutArguments \/ CallUnknownTool \/ CallExpandThrows
    \/ CallClient \/ ClientEnds

SpecCall == InitCall /\ [][NextCall]_vars

(* ======================= properties of textToADF ====================== *)

Last(q) == q[Len(q)]

\* The 1-based index of the last fence line among the first k lines (0 if
\* there is none): while a code block is open, its opening fence.
LastFence(k) ==
    LET fences == {j \in 1..k : IsFence(lines[j])}
    IN  IF fences = {} THEN 0 ELSE CHOOSE j \in fences : \A h \in fences : h <= j

CountOf(q, P(_)) == Cardinality({k \in 1..Len(q) : P(q[k])})

IsCodeBlock(b) == b.type = "codeBlock"

EmptyParagraph == [type |-> "paragraph", content |-> <<>>]

\* C1: the returned document is never empty: it is one paragraph without
\* inline content when no block was accumulated, and the accumulated blocks
\* otherwise.
C1_DocumentNeverEmpty ==
    pc = "done" =>
        /\ Len(doc.content) >= 1
        /\ content = <<>> => doc.content = <<EmptyParagraph>>
        /\ content # <<>> => doc.content = content

\* A text of blank lines only: the substitute paragraph is returned.
C1_Witness ==
    /\ pc = "done" /\ Len(lines) = 3 /\ content = <<>>
    /\ doc.content = <<EmptyParagraph>>

\* C2 (as stated): whenever the input ends inside an open code block, the
\* last block of the document is a codeBlock holding the buffered lines.
C2_UnclosedAlwaysFlushed ==
    (pc = "done" /\ inCodeBlock) =>
        /\ Last(doc.content).type = "codeBlock"
        /\ Last(doc.content).content[1].text = Join(codeBlockLines)

\* C2 (amended): when the input ends inside an open code block and at least
\* one line follows the opening fence, the last block is a codeBlock whose
\* text is the lines after the opening fence joined by newlines; when no
\* line follows the opening fence, no block is emitted for it.
C2_UnclosedFlushedWhenNonEmpty ==
    (pc = "done" /\ inCodeBlock) =>
        LET open == LastFence(Len(lines))
            closed == CountOf(SubSeq(lines, 1, open - 1), IsFence) \div 2
        IN  IF open < Len(lines)
            THEN /\ Last(doc.content).type = "codeBlock"
                 /\ Last(doc.content).content[1].text
                        = Join(SubSeq(lines, open + 1, Len(lines)))
                 /\ CountOf(doc.content, IsCodeBlock) = closed + 1
            ELSE CountOf(doc.content, IsCodeBlock) = closed

\* An unclosed code block of two lines was flushed.
C2_Witness ==
    /\ pc = "done" /\ inCodeBlock /\ Len(codeBlockLines) = 2
    /\ Last(doc.content).type = "codeBlock"
    /\ Last(doc.content).content[1].text = codeBlockLines[1] \o <<"\n">> \o codeBlockLines[2]

(* ------------------------------- C3 ----------------------------------- *)

MarkTypes == {"strong", "em", "strike", "code", "link"}

WellFormedRun(r) ==
    /\ r.type = "text"
    /\ Len(r.marks) <= 1
    /\ \A k \in 1..Len(r.marks) : r.marks[k].type \in MarkTypes

WellFormedInline(q) == \A k \in 1..Len(q) : WellFormedRun(q[k])

WellFormedItem(it) ==
    /\ it.type = "listItem"
    /\ Len(it.content) = 1
    /\ it.content[1].type = "paragraph"
    /\ WellFormedInline(it.content[1].content)

WellFormedBlock(b) ==
    CASE b.type = "paragraph" -> WellFormedInline(b.content)
      [] b.type = "heading" ->
            b.attrs.level \in 1..6 /\ WellFormedInline(b.content)
      [] b.type \in {"bulletList", "orderedList"} ->
            /\ Len(b.content) >= 1
            /\ \A k \in 1..Len(b.content) : WellFormedItem(b.content[k])
      [] b.type = "codeBlock" ->
            /\ DOMAIN b.attrs \subseteq {"language"}
            /\ \A a \in DOMAIN b.attrs : b.attrs[a] # <<>>
            /\ Len(b.content) = 1
            /\ b.content[1].type = "text" /\ b.content[1].marks = <<>>
      [] OTHER -> FALSE

\* C3: textToADF has no error outcome: while lines remain a step is always
\* possible, every line is processed, and the returned document is
\* well formed.
C3_NeverFails ==
    /\ pc \in {"loop", "done"}
    /\ pc = "loop" => i <= Len(lines) /\ ENABLED Next
    /\ pc = "done" =>
          /\ i = Len(lines)
          /\ doc.type = "doc"
          /\ Len(doc.content) >= 1
          /\ \A k \in 1..Len(doc.content) : WellFormedBlock(doc.content[k])

\* Malformed markup followed by a fence that is never closed.
C3_Witness ==
    /\ pc = "done" /\ i = 3 /\ inCodeBlock /\ codeBlockLines = <<>>
    /\ lines[1] = LnSevenHashes
    /\ Len(doc.content) = 2

(* ------------------------------- C4 ----------------------------------- *)

\* The trimmed text after the three backticks of a fence line.
TextAfterBackticks(l) == Trim(SubSeq(Trim(l), 4, Len(Trim(l))))

HasLanguage(attrs, lang) ==
    IF lang = <<>> THEN DOMAIN attrs = {}
    ELSE DOMAIN attrs = {"language"} /\ attrs["language"] = lang

\* C4: a fence line outside a code block opens one, records the language and
\* emits nothing; a fence line inside a code block closes it and emits one
\* codeBlock holding the lines since the opening fence, joined by newlines,
\* with the language of the opening fence, and resets buffer and language.
\* Neither passes anything to the inline tokenizer.
C4_FenceTransitions ==
    [][ (InLoop /\ IsFence(line)) =>
          /\ i' = i + 1
          /\ calls' = calls
          /\ codeBlockLines' = <<>>
          /\ IF ~inCodeBlock
             THEN /\ inCodeBlock'
                  /\ codeLanguage' = TextAfterBackticks(line)
                  /\ content' = content
             ELSE LET open == LastFence(i)
                  IN  /\ ~inCodeBlock'
                      /\ codeLanguage' = <<>>
                      /\ Len(content') = Len(content) + 1
                      /\ SubSeq(content', 1, Len(content)) = content
                      /\ Last(content').type = "codeBlock"
                      /\ Last(content').content
                            = <<PlainNode(Join(SubSeq(lines, open + 1, i)))>>
                      /\ HasLanguage(Last(content').attrs,
                                     TextAfterBackticks(lines[open]))
      ]_vars

\* A block with a language was closed around one heading-like line.
C4_Witness ==
    /\ pc = "loop" /\ i = 3 /\ ~inCodeBlock
    /\ codeBlockLines = <<>> /\ codeLanguage = <<>>
    /\ Len(content) = 1 /\ content[1].type = "codeBlock"
    /\ HasLanguage(content[1].attrs, <<"j", "s">>)
    /\ content[1].content[1].text = LnHeading

(* ------------------------------- C5 ----------------------------------- *)

\* C5: inside a code block a line that is not a fence is appended to the
\* buffer as it is, emits no block and is not passed to the tokenizer.
C5_CodeLinesVerbatim ==
    [][ (InLoop /\ inCodeBlock /\ ~IsFence(line)) =>
          /\ codeBlockLines' = Append(codeBlockLines, line)
          /\ content' = content
          /\ calls' = calls
          /\ inCodeBlock'
          /\ codeLanguage' = codeLanguage
          /\ i' = i + 1
      ]_vars

\* A blank line and a list-like line were buffered; nothing was emitted.
C5_Witness ==
    /\ pc = "loop" /\ inCodeBlock
    /\ codeBlockLines = <<LnBlank, LnBulletStar>>
    /\ content = <<>> /\ calls = <<>>

(* ------------------------------- C6 ----------------------------------- *)

\* What a trimmed line starts with: a bullet marker and white space, or
\* digits, a period and white space.
DigitsBefore(t, d) ==
    /\ d >= 1 /\ Len(t) >= d + 2
    /\ \A k \in 1..d : t[k] \in Digits
    /\ t[d + 1] = "." /\ t[d + 2] \in WhiteSpace

MarkerType(l) ==
    LET t == Trim(l)
    IN  IF Len(t) >= 2 /\ t[1] \in {"-", "*", BulletChar} /\ t[2] \in WhiteSpace
        THEN "bulletList"
        ELSE IF \E d \in 1..Len(t) : DigitsBefore(t, d) THEN "orderedList"
        ELSE "none"

\* The trimmed line without its marker and the character after it.
AfterMarker(l) ==
    LET t == Trim(l)
    IN  IF MarkerType(l) = "bulletList" THEN SubSeq(t, 3, Len(t))
        ELSE LET d == CHOOSE d \in 1..Len(t) : DigitsBefore(t, d)
             IN  SubSeq(t, d + 3, Len(t))

ItemOf(l) ==
    [type |-> "listItem",
     content |-> <<[type |-> "paragraph",
                    content |-> parseInlineFormatting(AfterMarker(l))]>>]

\* C6: outside a code block a list-item line adds one item to the last
\* emitted block if and only if that block is a list of the line's type
\* (the earlier blocks and items are untouched), and otherwise starts a new
\* list of one item; the item holds the line without its marker.
C6_ListMerge ==
    [][ (InLoop /\ ~inCodeBlock /\ MarkerType(line) # "none") =>
          LET ty == MarkerType(line)
              n  == Len(content)
          IN  IF n > 0 /\ content[n].type = ty
              THEN /\ Len(content') = n
                   /\ \A k \in 1..(n - 1) : content'[k] = content[k]
                   /\ content'[n].type = ty
                   /\ content'[n].content = Append(content[n].content, ItemOf(line))
              ELSE content' = Append(content, [type |-> ty, content |-> <<ItemOf(line)>>])
      ]_vars

\* Two bullet lines separated by a paragraph: two lists of one item.
C6_Witness ==
    /\ pc = "loop" /\ i = 3 /\ Len(content) = 3
    /\ content[1].type = "bulletList" /\ Len(content[1].content) = 1
    /\ content[2].type = "paragraph"
    /\ content[3].type = "bulletList" /\ Len(content[3].content) = 1

(* ------------------------------- C7 ----------------------------------- *)

AllWhiteSpace(l) == \A k \in 1..Len(l) : l[k] \in WhiteSpace

\* The 1-based index of the last of the first k lines that is not blank
\* (0 if all are).
LastNonBlank(k) ==
    LET S == {j \in 1..k : ~AllWhiteSpace(lines[j])}
    IN  IF S = {} THEN 0 ELSE CHOOSE j \in S : \A h \in S : h <= j

\* After a list-item line and any number of blank lines, outside a code
\* block, the list of that line is still the last block.
ListStaysOpen ==
    (pc = "loop" /\ ~inCodeBlock /\ LastNonBlank(i) > 0) =>
        LET ty == MarkerType(lines[LastNonBlank(i)])
        IN  ty # "none" => Last(content).type = ty

\* C7: outside a code block a blank line emits no block, passes nothing to
\* the tokenizer and changes no parser state, and it does not close a list.
C7_BlankLines ==
    /\ []ListStaysOpen
    /\ [][ (InLoop /\ ~inCodeBlock /\ AllWhiteSpace(line)) =>
             /\ content' = content
             /\ calls' = calls
             /\ inCodeBlock' = inCodeBlock
             /\ codeBlockLines' = codeBlockLines
             /\ codeLanguage' = codeLanguage
             /\ i' = i + 1
         ]_vars

\* Two bullet lines separated by a blank line: one list of two items.
C7_Witness ==
    /\ pc = "loop" /\ i = 3 /\ AllWhiteSpace(lines[2])
    /\ Len(content) = 1
    /\ content[1].type = "bulletList" /\ Len(content[1].content) = 2

(* ------------------------------- C8 ----------------------------------- *)

\* The number of # characters a line starts with.
LeadingHashes(l) ==
    IF \A k \in 1..Len(l) : l[k] = "#" THEN Len(l)
    ELSE (CHOOSE k \in 1..Len(l) : l[k] # "#" /\ \A j \in 1..(k - 1) : l[j] = "#") - 1

\* What follows the white space after the # characters.
HeadingContent(l) ==
    LET h == LeadingHashes(l)
        rest == SubSeq(l, h + 1, Len(l))
    IN  TrimStart(rest)

\* 1 to 6 # characters, white space, non-empty content.
IsHeadingLine(l) ==
    /\ LeadingHashes(l) \in 1..6
    /\ Len(l) > LeadingHashes(l)
    /\ l[LeadingHashes(l) + 1] \in WhiteSpace
    /\ HeadingContent(l) # <<>>

IsHeading(b) == b.type = "heading"

\* C8 (as stated): outside a code block every line of 1 to 6 # characters,
\* white space and non-empty content becomes a heading of that level whose
\* inline content is the tokenized content; heading levels lie in 1..6; a
\* line of 7 or more # characters emits no heading.
C8_Headings ==
    /\ [](\A k \in 1..Len(content) :
              IsHeading(content[k]) => content[k].attrs.level \in 1..6)
    /\ [][ (InLoop /\ ~inCodeBlock /\ LeadingHashes(line) >= 7) =>
             CountOf(content', IsHeading) = CountOf(content, IsHeading) ]_vars
    /\ [][ (InLoop /\ ~inCodeBlock /\ IsHeadingLine(line)) =>
             content' = Append(content,
                 [type |-> "heading",
                  attrs |-> [level |-> LeadingHashes(line)],
                  content |-> parseInlineFormatting(HeadingContent(line))])
         ]_vars

(* ================= properties of parseInlineFormatting ================ *)

\* w is d, then characters other than stop (at least min of them), then d.
DelimSpan(w, d, stop, min) ==
    LET n == Len(w)
        m == Len(d)
    IN  /\ n >= 2 * m + min
        /\ SubSeq(w, 1, m) = d
        /\ SubSeq(w, n - m + 1, n) = d
        /\ \A k \in (m + 1)..(n - m) : w[k] # stop

\* w is [label](href) with a label free of ] and a href free of ), both
\* non-empty, and the ] at 1-based index k.
LinkSpanAt(w, k) ==
    /\ k >= 3 /\ k + 3 <= Len(w)
    /\ w[1] = "[" /\ w[k] = "]" /\ w[k + 1] = "(" /\ w[Len(w)] = ")"
    /\ \A j \in 2..(k - 1) : w[j] # "]"
    /\ \A j \in (k + 2)..(Len(w) - 1) : w[j] # ")"

LinkSpan(w) == \E k \in 1..Len(w) : LinkSpanAt(w, k)

\* The forms of a span, in the order of priority: link, inline code, bold
\* (** then __), strikethrough, italic (* then _).
SpanForm(k, w) ==
    CASE k = 1 -> LinkSpan(w)
      [] k = 2 -> DelimSpan(w, <<Backtick>>, Backtick, 0)
      [] k = 3 -> DelimSpan(w, <<"*", "*">>, "*", 1)
      [] k = 4 -> DelimSpan(w, <<"_", "_">>, "_", 1)
      [] k = 5 -> DelimSpan(w, <<"~", "~">>, "~", 1)
      [] k = 6 -> DelimSpan(w, <<"*">>, "*", 1)
      [] k = 7 -> DelimSpan(w, <<"_">>, "_", 1)

Forms == 1..7

\* The text run of a span w of form k.
RunOfSpan(k, w) ==
    CASE k = 1 ->
            LET rb == CHOOSE j \in 1..Len(w) : LinkSpanAt(w, j)
            IN  [type |-> "text", text |-> SubSeq(w, 2, rb - 1),
                 marks |-> <<[type |-> "link",
                              attrs |-> [href |-> SubSeq(w, rb + 2, Len(w) - 1)]]>>]
      [] k = 2 -> [type |-> "text", text |-> SubSeq(w, 2, Len(w) - 1),
                   marks |-> <<[type |-> "code"]>>]
      [] k \in {3, 4} -> [type |-> "text", text |-> SubSeq(w, 3, Len(w) - 2),
                          marks |-> <<[type |-> "strong"]>>]
      [] k = 5 -> [type |-> "text", text |-> SubSeq(w, 3, Len(w) - 2),
                   marks |-> <<[type |-> "strike"]>>]
      [] k \in {6, 7} -> [type |-> "text", text |-> SubSeq(w, 2, Len(w) - 1),
                          marks |-> <<[type |-> "em"]>>]

\* The ends b of the spans of form k that start at position p of s.
SpanEnds(s, p, k) == {b \in (p + 1)..Len(s) : SpanForm(k, Substring(s, p, b))}

\* The forms that have a span starting at position p of s.
FormsAt(s, p) == {k \in Forms : SpanEnds(s, p, k) # {}}

\* The positions of s at or after from where a span starts.
SpanStarts(s, from) == {p \in from..(Len(s) - 1) : FormsAt(s, p) # {}}

Least(S) == CHOOSE x \in S : \A y \in S : x <= y

(* ------------------------------- C9 ----------------------------------- *)

\* C9: parseInlineFormatting never fails (a step is possible until it
\* returns, and it returns at least one well-formed run), and for a line in
\* which no span starts anywhere it returns the whole line as one run
\* without marks.
C9_PlainLine ==
    /\ tokPc \in {"scan", "returned"}
    /\ tokPc = "scan" => ENABLED NextTok
    /\ tokPc = "returned" =>
          /\ Len(result) >= 1
          /\ WellFormedInline(result)
          /\ SpanStarts(tokText, 0) = {} => result = <<PlainNode(tokText)>>

\* A line of unbalanced delimiters came back as one plain run.
C9_Witness ==
    /\ tokPc = "returned"
    /\ tokText = <<"a", "*", "a", "_", "~">>
    /\ result = <<PlainNode(tokText)>>

(* ------------------------------- C10 ---------------------------------- *)

\* s is ** X ** for the X returned by Inner(s).
DoubleStarred(s) ==
    /\ Len(s) >= 5
    /\ SubSeq(s, 1, 2) = <<"*", "*">>
    /\ SubSeq(s, Len(s) - 1, Len(s)) = <<"*", "*">>

Inner(s) == SubSeq(s, 3, Len(s) - 2)

HasStar(x) == \E k \in 1..Len(x) : x[k] = "*"

\* C10 (as stated, for a text that neither starts nor ends with an
\* asterisk): text delimited by double asterisks yields one strong run.
C10_DoubleStarAlwaysStrong ==
    (/\ tokPc = "returned" /\ DoubleStarred(tokText)
     /\ Head(Inner(tokText)) # "*" /\ Last(Inner(tokText)) # "*")
        => result = <<MarkedNode(Inner(tokText), "strong")>>

\* Each match is the span of the first form, in the order of priority,
\* that has a span at the leftmost position where any form has one.
FirstFormWins ==
    (tokPc = "scan" /\ tokPc' = "scan") =>
        /\ SpanStarts(tokText, currentPos) # {}
        /\ LET p == Least(SpanStarts(tokText, currentPos))
               k == Least(FormsAt(tokText, p))
               b == Least(SpanEnds(tokText, p, k))
           IN  /\ Last(result') = RunOfSpan(k, Substring(tokText, p, b))
               /\ currentPos' = b

\* A non-empty text without asterisks between double asterisks is one
\* strong run.
DoubleStarStrong ==
    (tokPc = "returned" /\ DoubleStarred(tokText) /\ ~HasStar(Inner(tokText)))
        => result = <<MarkedNode(Inner(tokText), "strong")>>

\* C10 (amended): at each match position the first alternative that matches,
\* in the order link, inline code, bold, strikethrough, italic, wins; text
\* without asterisks delimited by double asterisks yields one strong run.
C10_Priority == []DoubleStarStrong /\ [][FirstFormWins]_vars

\* **a** came back as one strong run.
C10_Witness ==
    /\ tokPc = "returned"
    /\ tokText = <<"*", "*", "a", "*", "*">>
    /\ result = <<MarkedNode(<<"a">>, "strong")>>

(* ------------------------------- C11 ---------------------------------- *)

Wrapped(d, t) == d \o t \o d

\* The pieces of source text a run can stand for: its text for a run
\* without marks, its text between the delimiters of its mark otherwise.
Wraps(r) ==
    IF r.marks = <<>> THEN {r.text}
    ELSE LET mark == r.marks[1]
         IN  CASE mark.type = "code" -> {Wrapped(<<Backtick>>, r.text)}
               [] mark.type = "strong" ->
                      {Wrapped(<<"*", "*">>, r.text), Wrapped(<<"_", "_">>, r.text)}
               [] mark.type = "strike" -> {Wrapped(<<"~", "~">>, r.text)}
               [] mark.type = "em" ->
                      {Wrapped(<<"*">>, r.text), Wrapped(<<"_">>, r.text)}
               [] mark.type = "link" ->
                      {<<"[">> \o r.text \o <<"]", "(">> \o mark.attrs.href
                           \o <<")">>}

\* The runs stand, one after the other and without gap or overlap, for the
\* pieces of s from position pos to position end.
RECURSIVE Covers(_, _, _, _)
Covers(runs, s, pos, end) ==
    IF runs = <<>> THEN pos = end
    ELSE \E w \in Wraps(Head(runs)) :
            /\ pos + Len(w) <= end
            /\ StartsWithAt(s, w, pos)
            /\ Covers(Tail(runs), s, pos + Len(w), end)

\* No two runs without marks follow each other, and only the run of the
\* empty line is empty and without marks.
PlainRunsMaximal(runs, s) ==
    /\ \A k \in 1..(Len(runs) - 1) :
           ~(runs[k].marks = <<>> /\ runs[k + 1].marks = <<>>)
    /\ \A k \in 1..Len(runs) :
           (runs[k].marks = <<>> /\ runs[k].text = <<>>) => s = <<>>

\* While scanning the runs cover the text before currentPos, and the
\* returned runs cover the whole text.
RunsCoverScanned ==
    /\ tokPc = "scan" =>
          /\ currentPos <= Len(tokText)
          /\ Covers(result, tokText, 0, currentPos)
    /\ tokPc = "returned" =>
          /\ Covers(result, tokText, 0, Len(tokText))
          /\ PlainRunsMaximal(result, tokText)

\* A match keeps the runs emitted so far and adds, for the text between
\* currentPos and the match, one run without marks when that text is not
\* empty, and then one run with a mark for the whole match; the return adds
\* one run without marks for the text that is left.
RunsAppended ==
    /\ (tokPc = "scan" /\ tokPc' = "scan") =>
          /\ currentPos' > currentPos
          /\ Len(result') > Len(result)
          /\ SubSeq(result', 1, Len(result)) = result
          /\ Last(result').marks # <<>>
          /\ \E w \in Wraps(Last(result')) :
                LET start == currentPos' - Len(w)
                IN  /\ start >= currentPos
                    /\ Substring(tokText, start, currentPos') = w
                    /\ result' = result
                          \o (IF start > currentPos
                              THEN <<PlainNode(Substring(tokText, currentPos, start))>>
                              ELSE <<>>)
                          \o <<Last(result')>>
    /\ (tokPc = "scan" /\ tokPc' = "returned") =>
          result' = result
              \o (IF currentPos < Len(tokText) \/ result = <<>>
                  THEN <<PlainNode(SubstringFrom(tokText, currentPos))>>
                  ELSE <<>>)

\* C11: the runs are in the order of the source and stand for pieces of it
\* that do not overlap; the text before a match and the text after the last
\* match are runs without marks of their own, and the inner text of a match
\* is one run, verbatim.
C11_RunsInOrder == []RunsCoverScanned /\ [][RunsAppended]_vars

\* a*_*a came back as the run a, the italic run _ (an underscore that was
\* not scanned again) and the run a.
C11_Witness ==
    /\ tokPc = "returned"
    /\ tokText = <<"a", "*", "_", "*", "a">>
    /\ result = <<PlainNode(<<"a">>), MarkedNode(<<"_">>, "em"), PlainNode(<<"a">>)>>

(* ------------------------------- C12 ---------------------------------- *)

\* The text fields of the runs, one after the other.
RECURSIVE ConcatText(_)
ConcatText(runs) ==
    IF runs = <<>> THEN <<>> ELSE Head(runs).text \o ConcatText(Tail(runs))

\* The text s from position from on without the delimiters of its spans:
\* of the leftmost span (of the first form that has one there) only the
\* inner text is kept, of a link only the label.
RECURSIVE StripFrom(_, _)
StripFrom(s, from) ==
    IF SpanStarts(s, from) = {} THEN SubstringFrom(s, from)
    ELSE LET p == Least(SpanStarts(s, from))
             k == Least(FormsAt(s, p))
             b == Least(SpanEnds(s, p, k))
         IN  Substring(s, from, p)
                 \o RunOfSpan(k, Substring(s, p, b)).text
                 \o StripFrom(s, b)

\* C12: the text fields of the returned runs, joined in order, are the line
\* without the delimiters of its spans (for a link, without the brackets
\* and the parenthesized href); no other character is lost, duplicated or
\* moved.
C12_RoundTrip ==
    tokPc = "returned" => ConcatText(result) = StripFrom(tokText, 0)

\* The link [(](]) came back as its label.
C12_Witness ==
    /\ tokPc = "returned"
    /\ tokText = <<"[", "(", "]", "(", "]", ")">>
    /\ ConcatText(result) = <<"(">>
    /\ StripFrom(tokText, 0) = <<"(">>

(* ------------------------------- C13 ---------------------------------- *)

\* The marks a run may carry: none, one of the four plain marks, or one
\* link mark with a href and nothing else.
OneMarkAtMost(r) ==
    \/ r.marks = <<>>
    \/ /\ Len(r.marks) = 1
       /\ \/ /\ DOMAIN r.marks[1] = {"type"}
             /\ r.marks[1].type \in {"strong", "em", "strike", "code"}
          \/ /\ DOMAIN r.marks[1] = {"type", "attrs"}
             /\ r.marks[1].type = "link"
             /\ DOMAIN r.marks[1].attrs = {"href"}

RunsOneMarkAtMost == \A k \in 1..Len(result) : OneMarkAtMost(result[k])

\* The run of a match carries the mark of the delimiters of the matched
\* text m: for [label](href), the link mark with that href and the label as
\* its text.
MarkOfMatch(m, r) ==
    /\ Len(r.marks) = 1
    /\ CASE m[1] = "[" ->
               /\ r.marks[1].type = "link"
               /\ m = <<"[">> \o r.text \o <<"]", "(">> \o r.marks[1].attrs.href
                        \o <<")">>
               /\ \A j \in 1..Len(r.text) : r.text[j] # "]"
               /\ \A j \in 1..Len(r.marks[1].attrs.href) :
                      r.marks[1].attrs.href[j] # ")"
          [] m[1] = Backtick ->
               r.marks[1].type = "code" /\ m = Wrapped(<<Backtick>>, r.text)
          [] m[1] = "~" ->
               r.marks[1].type = "strike" /\ m = Wrapped(<<"~", "~">>, r.text)
          [] m[1] \in {"*", "_"} ->
               \/ /\ r.marks[1].type = "strong"
                  /\ m = Wrapped(<<m[1], m[1]>>, r.text)
               \/ /\ r.marks[1].type = "em"
                  /\ m = Wrapped(<<m[1]>>, r.text)
          [] OTHER -> FALSE

\* The runs a step adds: those before the last carry no mark, and the last
\* carries the mark of the matched text when the step is a match and no
\* mark when it is the return.
MarksOfStep ==
    /\ \A k \in (Len(result) + 1)..(Len(result') - 1) : result'[k].marks = <<>>
    /\ (tokPc = "scan" /\ tokPc' = "scan") =>
          \E start \in currentPos..(currentPos' - 1) :
              /\ MarkOfMatch(Substring(tokText, start, currentPos'), Last(result'))
              /\ Len(result') - Len(result) = (IF start > currentPos THEN 2 ELSE 1)
    /\ (tokPc = "scan" /\ tokPc' = "returned" /\ Len(result') > Len(result)) =>
          Last(result').marks = <<>>

\* C13: every run carries at most one mark: none for plain text, one of
\* strong, em, strike, code for a formatted span, and for a link one link
\* mark whose only attribute is the href between the parentheses, the text
\* of the run being the label.
C13_OneMark == []RunsOneMarkAtMost /\ [][MarksOfStep]_vars

\* The link [[](() came back as the label [ with the href (.
C13_Witness ==
    /\ tokPc = "returned"
    /\ tokText = <<"[", "[", "]", "(", "(", ")">>
    /\ result = <<[type |-> "text", text |-> <<"[">>,
                   marks |-> <<[type |-> "link", attrs |-> [href |-> <<"(">>]]>>]>>

(* ------------------------------- C14 ---------------------------------- *)

\* The text at position p is two backticks.
TwoBackticksAt(s, p) == StartsWithAt(s, <<Backtick, Backtick>>, p)

EmptyCodeRun == [type |-> "text", text |-> <<>>, marks |-> <<[type |-> "code"]>>]

\* A match that ends with two adjacent backticks is the inline code span
\* with empty inner text (no other form ends with a backtick, and the inner
\* text of inline code holds none): it adds one code run with empty text,
\* after the run of the text before it when there is such text.
EmptySpanKept ==
    (/\ tokPc = "scan" /\ tokPc' = "scan"
     /\ currentPos' - 2 >= currentPos
     /\ TwoBackticksAt(tokText, currentPos' - 2))
        => result' = result
               \o (IF currentPos' - 2 > currentPos
                   THEN <<PlainNode(Substring(tokText, currentPos, currentPos' - 2))>>
                   ELSE <<>>)
               \o <<EmptyCodeRun>>

\* Every match adds a run with a mark, whatever its inner text.
MatchNeverDropped ==
    (tokPc = "scan" /\ tokPc' = "scan") =>
        /\ Len(result') > Len(result)
        /\ Last(result').marks # <<>>

\* Two backticks alone are one code run with empty text.
TwoBackticksAlone ==
    (tokPc = "returned" /\ tokText = <<Backtick, Backtick>>)
        => result = <<EmptyCodeRun>>

\* C14: a match whose inner text is empty (two adjacent backticks) still
\* yields a run with empty text and its mark; it is neither dropped nor
\* emitted as plain text.
C14_EmptySpan ==
    []TwoBackticksAlone /\ [][EmptySpanKept /\ MatchNeverDropped]_vars

\* a, two backticks, a came back as the run a, the empty code run and the
\* run a.
C14_Witness ==
    /\ tokPc = "returned"
    /\ tokText = <<"a", Backtick, Backtick, "a">>
    /\ result = <<PlainNode(<<"a">>), EmptyCodeRun, PlainNode(<<"a">>)>>

(* ================ properties of JiraClient.searchIssues =============== *)

\* The response d is a page with issues that is not the last one and names
\* the next page.
MorePages(d) ==
    /\ d.issues.def /\ Len(d.issues.val) > 0
    /\ d.isLast = "false"
    /\ Truthy(d.nextPageToken)

(* ------------------------------- C15 ---------------------------------- *)

\* C15 (as stated): searchIssues fetches all results of a query: it keeps
\* requesting pages until the server reports the last page (it does not
\* return after a page that is not the last and names a next page), and it
\* returns the issues of all pages in page order.
C15_FetchesAll ==
    searchPc = "done" =>
        /\ ~MorePages(data)
        /\ searchResult.issues = FreshIssues(0, served)

(* ------------------------------- C19 ---------------------------------- *)

\* An iteration (a response and the code after it) adds at least one issue
\* or leaves the loop.
IterationAddsOrExits ==
    (searchPc = "await" /\ searchPc' # "threw") =>
        \/ Len(allIssues') > Len(allIssues)
        \/ searchPc' = "return"
        \/ ~LoopCondition'

\* No request is in flight once the collected count has reached maxResults,
\* a page was empty, isLast was not false, or a page had no nextPageToken.
NoRequestAfterExit ==
    searchPc = "await" =>
        /\ Len(allIssues) < maxResults
        /\ data # NoData => MorePages(data)

\* The call is over: it returned, or a request failed.
SearchOver == searchPc \in {"done", "threw"}

\* C19: the loop of searchIssues terminates: every iteration adds at least
\* one issue or leaves the loop, no page is requested once the collected
\* count reaches maxResults, a page is empty, isLast is not false or a page
\* has no nextPageToken, and every call comes to its end.
C19_Terminates ==
    /\ [][IterationAddsOrExits]_vars
    /\ []NoRequestAfterExit
    /\ <>SearchOver

\* A call for 3 issues returned after three pages of one issue each.
C19_Witness ==
    /\ searchPc = "done"
    /\ maxResults = 3
    /\ served = 3
    /\ Len(data.issues.val) = 1
    /\ data.isLast = "false"
    /\ searchResult.issues = <<1, 2, 3>>

(* ------------------------------- C20 ---------------------------------- *)

\* The request in flight asks for min(100, maxResults - collected) issues,
\* and for at least one.
RequestSized ==
    searchPc = "await" =>
        /\ params.maxResults >= 1
        /\ params.maxResults <= PageLimit
        /\ params.maxResults <= maxResults - Len(allIssues)
        /\ params.maxResults \in {PageLimit, maxResults - Len(allIssues)}

TotalIsCount ==
    searchPc = "done" => searchResult.total = Len(searchResult.issues)

IsClause(s, p, open, b) ==
    /\ p + 3 <= open /\ open + 3 <= b /\ b <= Len(s)
    /\ s[p + 1] \in {"P", "p"} /\ s[p + 2] \in {"O", "o"} /\ s[p + 3] \in {"D", "d"}
    /\ \E eq \in (p + 3)..(open - 1) :
          /\ s[eq + 1] = "="
          /\ \A k \in ((p + 3)..(open - 1)) \ {eq} : s[k + 1] \in WhiteSpace
    /\ s[open + 1] \in Quotes
    /\ s[b] \in Quotes
    /\ \A k \in (open + 1)..(b - 2) : s[k + 1] \notin Quotes

\* The clauses that start at position p: their opening quote and their end.
ClausesAt(s, p) ==
    {ob \in (p..Len(s)) \X (p..Len(s)) : IsClause(s, p, ob[1], ob[2])}

ClauseStarts(s, from) == {p \in from..(Len(s) - 1) : ClausesAt(s, p) # {}}

\* The keys of the alias table.
AliasKeys == {e[1] : e \in POD_ALIASES}

FullPodName(key) == (CHOOSE e \in POD_ALIASES : e[1] = key)[2]

\* The name of a clause as the alias table knows it: in lower case and
\* without the white space around it.
AliasKeyOf(name) ==
    LET lower == [k \in 1..Len(name) |->
                    IF \E j \in 1..26 : UpperCase[j] = name[k]
                    THEN LowerCase[CHOOSE j \in 1..26 : UpperCase[j] = name[k]]
                    ELSE name[k]]
        first == Least({k \in 1..(Len(name) + 1) :
                           k = Len(name) + 1 \/ lower[k] \notin WhiteSpace})
        last  == IF first > Len(name) THEN Len(name)
                 ELSE CHOOSE k \in first..Len(name) :
                        /\ lower[k] \notin WhiteSpace
                        /\ \A j \in (k + 1)..Len(name) : lower[j] \in WhiteSpace
    IN  SubSeq(lower, first, last)

\* The text that stands for the clause of s from p to b with the opening
\* quote at open: Pod = "<full pod name>" when the name is an alias, the
\* clause itself when it is not.
ExpandedClause(s, p, open, b) ==
    LET key == AliasKeyOf(Substring(s, open + 1, b - 1))
    IN  IF key \in AliasKeys
        THEN <<"P", "o", "d", " ", "=", " ", "\"">> \o FullPodName(key) \o <<"\"">>
        ELSE Substring(s, p, b)

\* The query s from position from on, with the clauses expanded from left
\* to right and the text outside them unchanged.
RECURSIVE ExpandedFrom(_, _)
ExpandedFrom(s, from) ==
    IF ClauseStarts(s, from) = {} THEN SubstringFrom(s, from)
    ELSE LET p  == Least(ClauseStarts(s, from))
             ob == CHOOSE x \in ClausesAt(s, p) : TRUE
         IN  Substring(s, from, p)
                 \o ExpandedClause(s, p, ob[1], ob[2])
                 \o ExpandedFrom(s, ob[2])

(* ------------------------------- C16 ---------------------------------- *)

\* C16 (as stated): expandPodAliases rewrites every clause Pod = "<name>"
\* (keyword in any case, single or double quotes) whose name, in lower case
\* and trimmed, is a key of the alias table into Pod = "<full pod name>",
\* and leaves the clauses whose name is not an alias and the text outside
\* the clauses unchanged.
C16_AliasesExpanded ==
    podPc = "returned" => expandedJql = ExpandedFrom(aliasJql, 0)

\* The clauses of s have at most one reading.
ClausesUnambiguous ==
    \A p \in 0..Len(aliasJql) : Cardinality(ClausesAt(aliasJql, p)) <= 1

\* The expansion is as stated for the queries without a clause whose name is
\* a property that every object inherits.
ExpandsButInherited ==
    /\ ClausesUnambiguous
    /\ (/\ podPc = "returned"
        /\ \A p \in ClauseStarts(aliasJql, 0) : \A ob \in ClausesAt(aliasJql, p) :
              \A e \in InheritedProperties :
                  AliasKeyOf(Substring(aliasJql, ob[1] + 1, ob[2] - 1)) # e[1])
        => expandedJql = ExpandedFrom(aliasJql, 0)

(* ================= properties of JiraClient.addComment ================ *)

\* The attachments of the uploads that succeeded, in the order of the
\* uploads.
RECURSIVE Succeeded(_)
Succeeded(as) ==
    IF as = <<>> THEN <<>>
    ELSE (IF Head(as).ok THEN Head(as).uploaded ELSE <<>>) \o Succeeded(Tail(as))

\* The files of the uploads so far are the first files of the list, in
\* the order of the list, and no upload is made before the comment is
\* posted.
UploadsInListOrder ==
    attempts # <<>> =>
        /\ commentPosted
        /\ attachments.def
        /\ Len(attempts) <= Len(attachments.val)
        /\ \A k \in 1..Len(attempts) : attempts[k].file = attachments.val[k]

\* Only a failed post of the comment fails the call, and then no upload
\* was attempted.
OnlyPostFails ==
    commentPc = "threw" => ~commentPosted /\ attempts = <<>>

\* The call returns after an upload of every file, failed or not, with the
\* attachments of the uploads that succeeded.
AllFilesTried ==
    commentPc = "done" =>
        /\ commentPosted
        /\ IF HasAttachments
           THEN /\ Len(attempts) = Len(attachments.val)
                /\ commentResult.comment = CommentData
                /\ commentResult.attachments = Succeeded(attempts)
           ELSE attempts = <<>> /\ commentResult = CommentData

\* A failed upload leaves the list of uploaded attachments as it is and
\* the loop goes on to the next file.
FailedUploadSkipped ==
    (Len(attempts') = Len(attempts) + 1 /\ ~attempts'[Len(attempts')].ok) =>
        /\ uploadedAttachments' = uploadedAttachments
        /\ fileIndex' = fileIndex + 1
        /\ commentPc' \in {"upload", "done"}

\* C17: addComment posts the comment before any upload and uploads the
\* files one at a time in list order; a failed upload neither stops the
\* uploads after it nor fails the call; the returned attachments are those
\* of the uploads that succeeded, in order; when the post of the comment
\* fails no upload is attempted.
C17_CommentThenUploads ==
    /\ [](UploadsInListOrder /\ OnlyPostFails /\ AllFilesTried)
    /\ [][FailedUploadSkipped]_vars

\* Of three files the second was not found: the call returned the
\* attachments of the first and of the third.
C17_Witness ==
    /\ commentPc = "done"
    /\ attachments = Group(<<"a.png", "b.txt", "a.png">>)
    /\ Len(attempts) = 3
    /\ attempts[1].ok /\ ~attempts[2].ok /\ attempts[3].ok
    /\ attempts[2].error = "File not found"
    /\ commentResult.attachments =
           <<[id |-> 1, filename |-> "a.png"], [id |-> 2, filename |-> "a.png"]>>

(* ============== properties of the CallToolRequest handler ============= *)

\* The handler has not let an error out, and until it has returned it can
\* take a step.
NoErrorEscapes ==
    /\ callPc \in {"start", "client", "returned"}
    /\ callPc # "returned" => ENABLED NextCall

\* What a call that has returned has returned:
\* for a request without arguments the result Error: Missing arguments,
\* whatever the name, and no operation of the client was called;
\* for a name that is no tool an error result, and no operation was called;
\* for an operation that threw an error result with the message of the
\* error; for an operation that resolved a result that is no error.
ResultOfCall ==
    callPc = "returned" =>
        /\ Len(callResult.content) = 1
        /\ ~toolArgs.def =>
              /\ callResult = [content |-> <<[type |-> "text",
                                              text |-> <<"Error: Missing arguments">>]>>,
                               isError |-> TRUE]
              /\ clientCalls = <<>>
        /\ (toolArgs.def /\ toolName \notin ToolNames) =>
              /\ callResult.isError
              /\ callResult.content[1].text = <<"Unknown tool: ", toolName>>
              /\ clientCalls = <<>>
        /\ clientOutcome.kind = "throw" =>
              /\ callResult.isError
              /\ callResult.content[1].text = <<"Error: ", clientOutcome.value>>
        /\ clientOutcome.kind = "resolve" =>
              /\ ~callResult.isError
              /\ callResult.content[1].text[1] = "JSON"
        /\ clientOutcome.kind # "none" =>
              clientCalls = <<OperationOf(toolName)>>

\* C18: the handler always returns a result and lets no error out: without
\* arguments the result is the error Missing arguments and the client is
\* not called, an unknown name gives an error result, an error thrown by an
\* operation of the client gives an error result with its message, and an
\* operation that succeeds gives a result that is no error.
C18_AlwaysAResult == NoErrorEscapes /\ ResultOfCall

\* add_attachment returned the error result of a file that was not found.
C18_Witness ==
    /\ callPc = "returned"
    /\ toolName = "add_attachment"
    /\ clientCalls = <<"uploadAttachment">>
    /\ callResult.isError
    /\ callResult.content[1].text = <<"Error: ", "File not found: a.png">>

(* ================= line conservation in textToADF ===================== *)

\* The number of fence lines among the first k lines: the next line lies in
\* a code block when it is odd.
FencesBefore(k) == Cardinality({j \in 1..k : IsFence(lines[j])})

\* Line k (1-based) is no fence, lies outside the code blocks and is not
\* blank.
Conserved(k) ==
    /\ ~IsFence(lines[k])
    /\ FencesBefore(k - 1) % 2 = 0
    /\ ~AllWhiteSpace(lines[k])

ConservedLines(k) == Cardinality({j \in 1..k : Conserved(j)})

IsLineBlock(b) == b.type \in {"heading", "paragraph"}

\* The number of items of the lists among the blocks.
RECURSIVE ListItems(_)
ListItems(blocks) ==
    IF blocks = <<>> THEN 0
    ELSE (IF Head(blocks).type \in {"bulletList", "orderedList"}
          THEN Len(Head(blocks).content) ELSE 0) + ListItems(Tail(blocks))

\* Headings plus paragraphs plus list items.
BlockCount(blocks) == CountOf(blocks, IsLineBlock) + ListItems(blocks)

\* The same count of a document, the substitute paragraph left out.
DocCount(d) ==
    IF d.content = <<EmptyParagraph>> THEN 0 ELSE BlockCount(d.content)

\* The type of block of the first rule that takes the line, in the order
\* heading, bullet item, ordered item, paragraph.
RuleOf(l) ==
    IF HeadingMatch(l).found THEN "heading"
    ELSE IF MarkerType(l) = "bulletList" THEN "bulletList"
    ELSE IF MarkerType(l) = "orderedList" THEN "orderedList"
    ELSE "paragraph"

\* The count follows the lines handled so far, and the returned document
\* has the count of all the lines.
CountConserved ==
    /\ pc = "loop" => BlockCount(content) = ConservedLines(i)
    /\ pc = "done" => DocCount(doc) = ConservedLines(Len(lines))

\* A conserved line adds one to the count with one call of the tokenizer,
\* and the block that ends content is of the type of its rule.
LineClassified ==
    (InLoop /\ Conserved(i + 1)) =>
        /\ BlockCount(content') = BlockCount(content) + 1
        /\ Len(calls') = Len(calls) + 1
        /\ Len(content') > 0
        /\ Len(content') > 0 => content'[Len(content')].type = RuleOf(line)

\* Any other line leaves the count and the calls as they are.
LineNotCounted ==
    (InLoop /\ ~Conserved(i + 1)) =>
        /\ BlockCount(content') = BlockCount(content)
        /\ calls' = calls

\* C21: the number of headings plus paragraphs plus list items of the
\* returned document, the substitute empty paragraph not counted, is the
\* number of lines that are no fence, not blank and outside the code
\* blocks; each such line is taken by exactly one rule, the first in the
\* order heading, bullet item, ordered item, paragraph.
C21_LineConservation ==
    /\ []CountConserved
    /\ [][LineClassified /\ LineNotCounted]_vars

\* Two bullet lines and a paragraph line: three lines, two blocks, and a
\* count of three.
C21_Witness ==
    /\ pc = "done" /\ Len(lines) = 3 /\ ConservedLines(3) = 3
    /\ Len(doc.content) = 2
    /\ doc.content[1].type = "bulletList" /\ Len(doc.content[1].content) = 2
    /\ doc.content[2].type = "paragraph"
    /\ DocCount(doc) = 3

====
